---- MODULE Spec2Model ----
(***************************************************************************)
(* Univo backend: the FastAPI wiring of backend/main.py (lifespan, REST    *)
(* endpoints, WebSocket endpoint), the blockchain identity service, the    *)
(* quantum cryptography service, and the gesture classifier and the        *)
(* background removal of the video service, as state machines.             *)
(*                                                                         *)
(* Specifications:                                                         *)
(*   Spec         lifespan + REST request handling      (main.py)          *)
(*   SpecWs       the WebSocket endpoint                (main.py)          *)
(*   SpecChain    BlockchainService                     (blockchain)       *)
(*   SpecRep      the reputation system, with a history (blockchain)       *)
(*   SpecQuantum  quantum-key channels, AES             (quantum)          *)
(*   SpecLattice  post-quantum and hybrid channels      (quantum)          *)
(*   SpecChannels the channel registry and its counters (quantum)          *)
(*   SpecQkd      generate_bb84_key                     (quantum)          *)
(*   SpecGesture  _classify_gesture                     (video)            *)
(*   SpecBackground remove_background                   (video)            *)
(***************************************************************************)
EXTENDS Integers, Sequences, FiniteSets, TLC

VARIABLES
    \* ---- main.py: lifespan and the REST layer
    lifespan_pc,    \* position of lifespan() (main.py:40-74)
    db_state,       \* DatabaseManager: "new", "open", "closed"
    redis_state,    \* RedisManager: "new", "open", "closed"
    services,       \* the global registry: name -> service class
    models_ready,   \* services whose initialize_models() has returned
    requests,       \* request id -> the request's record
    service_calls,  \* service operations invoked so far: {[req, service, op]}
    auth_calls,     \* number of validate_token() calls made
    \* ---- main.py: the WebSocket endpoint
    ws_rooms,       \* WebSocketManager: room id -> sockets connected to it
    sockets,        \* socket -> the state of its websocket_endpoint() call
    ws_received,    \* socket -> the texts receive_text() has returned to it
    broadcast_log,  \* the broadcast_to_room() calls made, in order, each with
                    \* the sockets the manager sent the message to
    \* ---- services/blockchain_service.py
    web3_available,     \* WEB3_AVAILABLE, fixed when the module is imported
    identity_registry,  \* BlockchainService.identity_registry: did -> record
    accounts,           \* MockBlockchain.accounts: address -> account
    contract_addresses, \* BlockchainService.contract_addresses (its keys)
    contract_storage,   \* storage of the mock identity contract: id -> params
    reputation_scores,  \* ReputationSystem.reputation_scores: identity id -> record
    now,                \* datetime.utcnow(), in days
    chain_ops,          \* number of state-changing steps the service has made
                        \* since the initial state
    issued,             \* the credentials issue_credential has returned
    chain_result,       \* the outcome of the last BlockchainService operation
    \* ---- services/quantum_service.py
    key_cache,          \* QuantumCryptographyService.key_cache: channel -> entry
    active_channels,    \* QuantumCryptographyService.active_channels
    clock_hours,        \* datetime.utcnow(), in hours
    quantum_ops,        \* number of state-changing steps the service has made
    client_message,     \* the message the clients of this run encrypt
    urandom_iv,         \* the bytes os.urandom(16) returns in this run
    lattice_noise,      \* the noise lattice_encrypt draws in this run
    held,               \* the last encrypt_data result a client holds, with the
                        \* message and the key it was made from
    quantum_log,        \* per channel id, the call that last wrote its entry and
                        \* the encrypt_data calls on it that returned since, in
                        \* order: a history for the properties
    quantum_result,     \* the outcome of the last quantum service operation
    qkd_draws,          \* generate_bb84_key: key_length, QISKIT_AVAILABLE and what
                        \* secrets.randbelow and secrets.token_hex return
    qkd_result,         \* what generate_bb84_key returned or raised
    \* ---- services/video_service.py
    hand_landmarks,     \* the hand landmarks handed to _classify_gesture
    gesture,            \* what _classify_gesture returned
    video_data,         \* the request dict handed to remove_background
    background_result   \* what remove_background did: the helper that made the
                        \* mask, and the dict it returned or the exception

apiVars == << lifespan_pc, db_state, redis_state, services, models_ready,
              requests, service_calls, auth_calls >>

wsVars == << ws_rooms, sockets, ws_received, broadcast_log >>

chainVars == << web3_available, identity_registry, accounts, contract_addresses,
                contract_storage, reputation_scores, now, chain_ops, issued,
                chain_result >>

quantumVars == << key_cache, active_channels, clock_hours, quantum_ops,
                  client_message, urandom_iv, lattice_noise, held, quantum_log, quantum_result >>

qkdVars == << qkd_draws, qkd_result >>

videoVars == << hand_landmarks, gesture, video_data, background_result >>

vars == << apiVars, wsVars, chainVars, quantumVars, qkdVars, videoVars >>

nonApiVars == << wsVars, chainVars, quantumVars, qkdVars, videoVars >>
nonWsVars == << apiVars, chainVars, quantumVars, qkdVars, videoVars >>
nonChainVars == << apiVars, wsVars, quantumVars, qkdVars, videoVars >>
nonQuantumVars == << apiVars, wsVars, chainVars, qkdVars, videoVars >>
nonQkdVars == << apiVars, wsVars, chainVars, quantumVars, videoVars >>
nonVideoVars == << apiVars, wsVars, chainVars, quantumVars, qkdVars >>

(***************************************************************************)
(* Bounds                                                                  *)
(***************************************************************************)
MaxRequests == 1
MaxSockets == 2
MaxMessages == 2
MaxChainOps == 4
MaxQuantumOps == 3
MaxChannels == 1
MaxMessageLen == 17
\* PostQuantumCrypto.lattice_dimension, which is 512 in the source
\* (quantum_service.py:93): the model runs the code's arithmetic and its
\* comparisons with the dimension at this size
LatticeDimension == 3

(***************************************************************************)
(* main.py: the service registry and lifespan                              *)
(***************************************************************************)

\* services[...] = ...() in the order of main.py:52-59
ServiceOrder ==
    << "ai", "video", "quantum", "blockchain", "neural", "metaverse",
       "analytics", "auth" >>

ServiceClass(name) ==
    CASE name = "ai"         -> "AIService"
      [] name = "video"      -> "VideoProcessingService"
      [] name = "quantum"    -> "QuantumCryptographyService"
      [] name = "blockchain" -> "BlockchainService"
      [] name = "neural"     -> "NeuralInterfaceService"
      [] name = "metaverse"  -> "MetaverseService"
      [] name = "analytics"  -> "AdvancedAnalyticsService"
      [] name = "auth"       -> "AuthenticationService"

\* the services whose initialize_models() lifespan awaits, in order
ModelOrder == << "ai", "video", "neural" >>

\* a registry rebuilt at each assignment: services = {name: cls}
RegistryReplace(reg, name, cls) == [n \in {name} |-> cls]

\* services[name] = cls : a dict assignment (adds or replaces the entry)
RegistrySet(reg, name, cls) ==
    [n \in (DOMAIN reg) \cup {name} |-> IF n = name THEN cls ELSE reg[n]]

EmptyRegistry == [n \in {} |-> "none"]

Names(seq) == {seq[i] : i \in 1..Len(seq)}

\* the statements of lifespan() in program order; lifespan_pc is the label of
\* the statement about to run
LifespanLabels ==
    << "db_init", "redis_init" >>
    \o [i \in 1..Len(ServiceOrder) |-> "construct_" \o ServiceOrder[i]]
    \o [i \in 1..Len(ModelOrder) |-> "init_models_" \o ModelOrder[i]]
    \o << "yield", "db_close", "redis_close", "done" >>

LabelIndex(label) == CHOOSE i \in 1..Len(LifespanLabels) : LifespanLabels[i] = label

NextLabel(label) == LifespanLabels[LabelIndex(label) + 1]

ConstructLabels == {"construct_" \o ServiceOrder[i] : i \in 1..Len(ServiceOrder)}
InitModelLabels == {"init_models_" \o ModelOrder[i] : i \in 1..Len(ModelOrder)}

ConstructedAt(label) ==
    ServiceOrder[CHOOSE i \in 1..Len(ServiceOrder) : "construct_" \o ServiceOrder[i] = label]

InitializedAt(label) ==
    ModelOrder[CHOOSE i \in 1..Len(ModelOrder) : "init_models_" \o ModelOrder[i] = label]

\* the application serves requests between lifespan's startup half and its
\* shutdown half, i.e. while lifespan() is suspended at its yield
Serving == lifespan_pc = "yield"

(***************************************************************************)
(* main.py: REST endpoints                                                 *)
(***************************************************************************)

\* one row per @app.get/@app.post handler: the service operation it awaits,
\* whether it depends on get_current_user, and the status of its except clause
Routes ==
    { [path |-> "/api/auth/login", service |-> "auth", op |-> "authenticate",
       protected |-> FALSE, status |-> 401],
      [path |-> "/api/auth/register", service |-> "auth", op |-> "register_user",
       protected |-> FALSE, status |-> 400],
      [path |-> "/api/ai/transcribe", service |-> "ai", op |-> "transcribe_audio",
       protected |-> TRUE, status |-> 500],
      [path |-> "/api/ai/translate", service |-> "ai", op |-> "translate_text",
       protected |-> TRUE, status |-> 500],
      [path |-> "/api/ai/summarize", service |-> "ai", op |-> "summarize_meeting",
       protected |-> TRUE, status |-> 500],
      [path |-> "/api/ai/emotion-analysis", service |-> "ai", op |-> "analyze_emotions",
       protected |-> TRUE, status |-> 500],
      [path |-> "/api/video/enhance", service |-> "video", op |-> "enhance_video",
       protected |-> TRUE, status |-> 500],
      [path |-> "/api/video/background-removal", service |-> "video",
       op |-> "remove_background", protected |-> TRUE, status |-> 500],
      [path |-> "/api/video/gesture-recognition", service |-> "video",
       op |-> "recognize_gestures", protected |-> TRUE, status |-> 500],
      [path |-> "/api/quantum/generate-keys", service |-> "quantum",
       op |-> "generate_keys", protected |-> TRUE, status |-> 500],
      [path |-> "/api/quantum/encrypt", service |-> "quantum", op |-> "encrypt_data",
       protected |-> TRUE, status |-> 500],
      [path |-> "/api/blockchain/create-identity", service |-> "blockchain",
       op |-> "create_identity", protected |-> TRUE, status |-> 500],
      [path |-> "/api/blockchain/verify-credential", service |-> "blockchain",
       op |-> "verify_credential", protected |-> TRUE, status |-> 500],
      [path |-> "/api/neural/process-signals", service |-> "neural",
       op |-> "process_signals", protected |-> TRUE, status |-> 500],
      [path |-> "/api/neural/calibrate", service |-> "neural",
       op |-> "calibrate_interface", protected |-> TRUE, status |-> 500],
      [path |-> "/api/metaverse/create-world", service |-> "metaverse",
       op |-> "create_world", protected |-> TRUE, status |-> 500],
      [path |-> "/api/metaverse/worlds", service |-> "metaverse", op |-> "get_worlds",
       protected |-> TRUE, status |-> 500],
      [path |-> "/api/analytics/meeting-insights", service |-> "analytics",
       op |-> "get_meeting_insights", protected |-> TRUE, status |-> 500],
      [path |-> "/api/analytics/user-behavior", service |-> "analytics",
       op |-> "analyze_user_behavior", protected |-> TRUE, status |-> 500] }

HealthPath == "/health"

\* the services health_check() awaits, in the order of main.py:114-120
HealthOrder ==
    << "ai", "video", "quantum", "blockchain", "neural", "metaverse", "analytics" >>

Paths == {r.path : r \in Routes} \cup {HealthPath}

Route(path) == CHOOSE r \in Routes : r.path = path

\* exceptions a service operation may raise, as (class, argument)
NoException == [cls |-> "none", arg |-> ""]

Exceptions ==
    { [cls |-> "ValueError", arg |-> "Channel not found or keys expired"],
      [cls |-> "KeyError", arg |-> "channel_id"] }

\* str(e): the argument for an ordinary exception, its repr for a KeyError
Str(e) == IF e.cls = "KeyError" THEN "'" \o e.arg \o "'" ELSE e.arg

NoResponse == [kind |-> "none", status |-> 0, detail |-> ""]

\* raise HTTPException(status_code=status, detail=detail)
HTTPException(status, detail) ==
    [kind |-> "http_error", status |-> status, detail |-> detail]

\* return result
Returned == [kind |-> "result", status |-> 200, detail |-> ""]

\* an exception that leaves the handler: the framework's plain 500
Unhandled == [kind |-> "unhandled", status |-> 500, detail |-> "Internal Server Error"]

\* a request: its handler's position, whether get_current_user returned a user
\* or the exception validate_token raised, the exception the service call
\* raised, and the response
NewRequest ==
    [pc |-> "new", path |-> "", authenticated |-> FALSE, auth_error |-> NoException,
     raised |-> NoException, response |-> NoResponse]

InFlight(r) == requests[r].pc \in {"auth", "handler"}

\* a route table in which /api/quantum/encrypt lost its dependency
ProtectedButEncrypt(path) ==
    path # HealthPath /\ Route(path).protected /\ path # "/api/quantum/encrypt"

\* does the handler of path declare user=Depends(get_current_user)?
Protected(path) == path # HealthPath /\ Route(path).protected

\* every except clause answering 500, the auth endpoints included
ExceptClauseAlways500(path, e) == HTTPException(500, Str(e))

\* except Exception as e: raise HTTPException(status_code=..., detail=str(e))
ExceptClause(path, e) == HTTPException(Route(path).status, Str(e))

\* get_current_user's except clause (main.py:103-104)
InvalidCredentials == HTTPException(401, "Invalid authentication credentials")

\* what the handler of a route answers when its service call ends with
\* outcome (NoException: the call returned)
EndpointResponse(path, outcome) ==
    IF outcome = NoException THEN Returned ELSE ExceptClause(path, outcome)

\* health_check() has no try block: an exception of a service's
\* health_check() leaves the handler
HealthResponse(outcome) ==
    IF outcome = NoException THEN Returned ELSE Unhandled

\* one statement of lifespan() before the yield; ok = FALSE: it raises, and
\* the exception leaves lifespan() (there is no try/finally around the yield)
Startup(ok) ==
    /\ lifespan_pc \in {"db_init", "redis_init"} \cup ConstructLabels \cup InitModelLabels
    /\ lifespan_pc' = IF ok THEN NextLabel(lifespan_pc) ELSE "startup_failed"
    /\ db_state' = IF ok /\ lifespan_pc = "db_init" THEN "open" ELSE db_state
    /\ redis_state' = IF ok /\ lifespan_pc = "redis_init" THEN "open" ELSE redis_state
    /\ services' =
           IF ok /\ lifespan_pc \in ConstructLabels
           THEN RegistrySet(services, ConstructedAt(lifespan_pc),
                            ServiceClass(ConstructedAt(lifespan_pc)))
           ELSE services
    /\ models_ready' =
           IF ok /\ lifespan_pc \in InitModelLabels
           THEN models_ready \cup {InitializedAt(lifespan_pc)}
           ELSE models_ready
    /\ UNCHANGED << requests, service_calls, auth_calls, nonApiVars >>

\* the server resumes lifespan() after its yield once no request is in flight
BeginShutdown ==
    /\ Serving
    /\ \A r \in 1..MaxRequests : ~InFlight(r)
    /\ lifespan_pc' = "db_close"
    /\ UNCHANGED << db_state, redis_state, services, models_ready, requests,
                    service_calls, auth_calls, nonApiVars >>

\* await db_manager.close(); await redis_manager.close()
Shutdown(ok) ==
    /\ lifespan_pc \in {"db_close", "redis_close"}
    /\ lifespan_pc' = IF ok THEN NextLabel(lifespan_pc) ELSE "shutdown_failed"
    /\ db_state' = IF ok /\ lifespan_pc = "db_close" THEN "closed" ELSE db_state
    /\ redis_state' = IF ok /\ lifespan_pc = "redis_close" THEN "closed" ELSE redis_state
    /\ UNCHANGED << services, models_ready, requests, service_calls, auth_calls, nonApiVars >>

\* a request for path arrives (requests are numbered in arrival order); the
\* framework resolves the handler's dependencies before it calls the handler
Arrive(r, path) ==
    /\ Serving
    /\ requests[r].pc = "new"
    /\ \A q \in 1..(r - 1) : requests[q].pc # "new"
    /\ requests' = [requests EXCEPT ![r].path = path,
                       ![r].pc = IF Protected(path) THEN "auth" ELSE "handler"]
    /\ UNCHANGED << lifespan_pc, db_state, redis_state, services, models_ready,
                    service_calls, auth_calls, nonApiVars >>

\* get_current_user: await services['auth'].validate_token(...); outcome is
\* NoException when validate_token returns a user
GetCurrentUser(r, outcome) ==
    /\ requests[r].pc = "auth"
    /\ "auth" \in DOMAIN services
    /\ auth_calls' = auth_calls + 1
    /\ requests' =
           IF outcome = NoException
           THEN [requests EXCEPT ![r].pc = "handler", ![r].authenticated = TRUE]
           ELSE [requests EXCEPT ![r].pc = "done", ![r].auth_error = outcome,
                                 ![r].response = InvalidCredentials]
    /\ UNCHANGED << lifespan_pc, db_state, redis_state, services, models_ready,
                    service_calls, nonApiVars >>

\* the handler of a route under /api: try: result = await services[s].op(...)
Handle(r, outcome) ==
    /\ requests[r].pc = "handler"
    /\ requests[r].path # HealthPath
    /\ LET route == Route(requests[r].path) IN
        /\ route.service \in DOMAIN services
        /\ service_calls' = service_calls \cup
               {[req |-> r, service |-> route.service, op |-> route.op]}
        /\ requests' = [requests EXCEPT ![r].pc = "done", ![r].raised = outcome,
                           ![r].response = EndpointResponse(route.path, outcome)]
    /\ UNCHANGED << lifespan_pc, db_state, redis_state, services, models_ready,
                    auth_calls, nonApiVars >>

\* health_check(): the seven health_check() calls in order; failing = 0: all
\* return; failing = k: the k-th raises outcome and the later ones are not made
Health(r, failing, outcome) ==
    /\ requests[r].pc = "handler"
    /\ requests[r].path = HealthPath
    /\ (failing = 0) <=> (outcome = NoException)
    /\ Names(HealthOrder) \subseteq DOMAIN services
    /\ LET called == IF failing = 0 THEN Len(HealthOrder) ELSE failing IN
        service_calls' = service_calls \cup
            {[req |-> r, service |-> HealthOrder[i], op |-> "health_check"] :
                i \in 1..called}
    /\ requests' = [requests EXCEPT ![r].pc = "done", ![r].raised = outcome,
                       ![r].response = HealthResponse(outcome)]
    /\ UNCHANGED << lifespan_pc, db_state, redis_state, services, models_ready,
                    auth_calls, nonApiVars >>

(***************************************************************************)
(* main.py: the WebSocket endpoint, and utils/websocket_manager.py         *)
(***************************************************************************)

Sockets == 1..MaxSockets
RoomOrder == << "room1", "room2" >>
Rooms == Names(RoomOrder)

\* the texts a client sends
Texts ==
    { "not json",
      "{\"type\":\"video_frame\",\"data\":\"frame\"}",
      "{\"type\":\"video_frame\"}",
      "{\"type\":\"audio_chunk\",\"data\":\"chunk\"}",
      "{\"type\":\"neural_signal\",\"data\":\"signal\"}",
      "{\"type\":\"chat\",\"text\":\"hi\"}",
      "{\"text\":\"hi\"}" }

\* JSON values: an object is its key -> value mapping (every text below that
\* parses is an object)
JsonObject(members) == [json |-> "object", members |-> members]
JsonError == [json |-> "error", members |-> [k \in {} |-> ""]]
NoMessage == [json |-> "none", members |-> [k \in {} |-> ""]]

\* json.loads(data) on the texts above; JsonError: it raises JSONDecodeError
json_loads(text) ==
    CASE text = "{\"type\":\"video_frame\",\"data\":\"frame\"}" ->
             JsonObject([type |-> "video_frame", data |-> "frame"])
      [] text = "{\"type\":\"video_frame\"}" ->
             JsonObject([type |-> "video_frame"])
      [] text = "{\"type\":\"audio_chunk\",\"data\":\"chunk\"}" ->
             JsonObject([type |-> "audio_chunk", data |-> "chunk"])
      [] text = "{\"type\":\"neural_signal\",\"data\":\"signal\"}" ->
             JsonObject([type |-> "neural_signal", data |-> "signal"])
      [] text = "{\"type\":\"chat\",\"text\":\"hi\"}" ->
             JsonObject([type |-> "chat", text |-> "hi"])
      [] text = "{\"text\":\"hi\"}" ->
             JsonObject([text |-> "hi"])
      [] OTHER -> JsonError

\* message.get('type'): None ("") when the key is absent
GetType(message) ==
    IF "type" \in DOMAIN message.members THEN message.members.type ELSE ""

\* an if/elif chain whose audio branch replies with the video branch's type
WsServiceSwapped(type) ==
    CASE type = "video_frame"   -> [service |-> "video", op |-> "process_frame",
                                    reply |-> "processed_video"]
      [] type = "audio_chunk"   -> [service |-> "ai", op |-> "transcribe_chunk",
                                    reply |-> "processed_video"]
      [] type = "neural_signal" -> [service |-> "neural", op |-> "process_signal",
                                    reply |-> "neural_command"]
      [] OTHER                  -> [service |-> "", op |-> "", reply |-> ""]

\* the branch of the if/elif chain of websocket_endpoint a type selects: the
\* service awaited and the type of the message broadcast ("" : the else branch)
WsService(type) ==
    CASE type = "video_frame"   -> [service |-> "video", op |-> "process_frame",
                                    reply |-> "processed_video"]
      [] type = "audio_chunk"   -> [service |-> "ai", op |-> "transcribe_chunk",
                                    reply |-> "transcription"]
      [] type = "neural_signal" -> [service |-> "neural", op |-> "process_signal",
                                    reply |-> "neural_command"]
      [] OTHER                  -> [service |-> "", op |-> "", reply |-> ""]

\* what a service operation returns for data when nothing fails inside it
ServiceResult(op, data) == op \o "(" \o data \o ")"

\* AIService.transcribe_chunk: {'text': '', 'confidence': 0.0}
EmptyTranscription == "{'text': '', 'confidence': 0.0}"

\* how a service operation ends when something fails inside it (failure is the
\* exception): transcribe_chunk catches it and returns an empty transcription
\* (ai_service.py:382-384); process_frame re-raises it (video_service.py:363-365),
\* and so may process_signal
ServiceCall(op, data, failure) ==
    IF failure = NoException
    THEN [raised |-> NoException, result |-> ServiceResult(op, data)]
    ELSE IF op = "transcribe_chunk"
    THEN [raised |-> NoException, result |-> EmptyTranscription]
    ELSE [raised |-> failure, result |-> ""]

WebSocketDisconnect == [cls |-> "WebSocketDisconnect", arg |-> ""]

NewSocket ==
    [pc |-> "closed", room |-> "", message |-> NoMessage, pending |-> NoMessage,
     exit |-> NoException]

\* WebSocketManager.connect(websocket, room_id)
ManagerConnect(rooms, s, room) == [rooms EXCEPT ![room] = @ \cup {s}]

\* WebSocketManager.disconnect(websocket, room_id)
ManagerDisconnect(rooms, s, room) == [rooms EXCEPT ![room] = @ \ {s}]

\* WebSocketManager.broadcast_to_room(room_id, message): the sockets sent to
ManagerRecipients(rooms, room) == rooms[room]

\* the handler of s leaves with exception e: only WebSocketDisconnect is
\* caught, and its clause calls websocket_manager.disconnect
WsStop(s, e) ==
    /\ sockets' = [sockets EXCEPT ![s].pc = "stopped", ![s].exit = e,
                      ![s].message = NoMessage, ![s].pending = NoMessage]
    /\ ws_rooms' = IF e = WebSocketDisconnect
                   THEN ManagerDisconnect(ws_rooms, s, sockets[s].room)
                   ELSE ws_rooms

\* await websocket_manager.connect(websocket, room_id); sockets are numbered in
\* the order they connect and rooms in the order they are first used
WsConnect(s, room) ==
    /\ Serving
    /\ sockets[s].pc = "closed"
    /\ \A q \in 1..(s - 1) : sockets[q].pc # "closed"
    /\ \A i \in 1..Len(RoomOrder) :
           RoomOrder[i] = room =>
               \A j \in 1..(i - 1) : \E t \in Sockets : sockets[t].room = RoomOrder[j]
    /\ sockets' = [sockets EXCEPT ![s].pc = "receive", ![s].room = room]
    /\ ws_rooms' = ManagerConnect(ws_rooms, s, room)
    /\ UNCHANGED << ws_received, broadcast_log, nonWsVars >>

TotalReceived == LET sum[n \in 0..MaxSockets] ==
                         IF n = 0 THEN 0 ELSE sum[n - 1] + Len(ws_received[n])
                 IN sum[MaxSockets]

\* a handler that reads the next text while its last broadcast is still awaited
AtReceiveOrBroadcast(s) == sockets[s].pc \in {"receive", "broadcast"}

\* the handler of s is at `await websocket.receive_text()` (line 310), which the
\* loop reaches again only after the awaits of the branch taken have returned
AtReceive(s) == sockets[s].pc = "receive"

\* data = await websocket.receive_text(); message = json.loads(data); then
\* the if/elif chain up to the first await of the branch taken
WsReceive(s, text) ==
    /\ AtReceive(s)
    /\ TotalReceived < MaxMessages
    /\ ws_received' = [ws_received EXCEPT ![s] = Append(@, text)]
    /\ LET message == json_loads(text) IN
        IF message = JsonError
        THEN WsStop(s, [cls |-> "JSONDecodeError", arg |-> "Expecting value"])
        ELSE IF WsService(GetType(message)).op = ""
        THEN /\ sockets' = [sockets EXCEPT ![s].pc = "broadcast",
                               ![s].pending = message]
             /\ UNCHANGED ws_rooms
        ELSE IF "data" \notin DOMAIN message.members
        THEN WsStop(s, [cls |-> "KeyError", arg |-> "data"])
        ELSE /\ sockets' = [sockets EXCEPT ![s].pc = "service",
                               ![s].message = message]
             /\ UNCHANGED ws_rooms
    /\ UNCHANGED << broadcast_log, nonWsVars >>

\* receive_text() raises WebSocketDisconnect: the client has gone
WsDisconnected(s) ==
    /\ sockets[s].pc = "receive"
    /\ WsStop(s, WebSocketDisconnect)
    /\ UNCHANGED << ws_received, broadcast_log, nonWsVars >>

\* the awaited service call of a typed message ends, and the reply is built
WsServiceDone(s, failure) ==
    /\ sockets[s].pc = "service"
    /\ LET branch == WsService(GetType(sockets[s].message))
           call == ServiceCall(branch.op, sockets[s].message.members.data, failure)
       IN
        /\ branch.service \in DOMAIN services
        /\ IF call.raised = NoException
           THEN /\ sockets' = [sockets EXCEPT ![s].pc = "broadcast",
                                  ![s].message = NoMessage,
                                  ![s].pending =
                                      JsonObject([type |-> branch.reply,
                                                  data |-> call.result])]
                /\ UNCHANGED ws_rooms
           ELSE WsStop(s, call.raised)
    /\ UNCHANGED << ws_received, broadcast_log, nonWsVars >>

\* await websocket_manager.broadcast_to_room(room_id, ...) ends: the message
\* has been sent to the sockets of the room, or the call raises failure
WsBroadcast(s, failure) ==
    /\ sockets[s].pc = "broadcast"
    /\ IF failure = NoException
       THEN /\ broadcast_log' = Append(broadcast_log,
                   [room |-> sockets[s].room, message |-> sockets[s].pending,
                    from |-> s, seq |-> Len(ws_received[s]),
                    recipients |-> ManagerRecipients(ws_rooms, sockets[s].room)])
            /\ sockets' = [sockets EXCEPT ![s].pc = "receive", ![s].pending = NoMessage]
            /\ UNCHANGED ws_rooms
       ELSE /\ WsStop(s, failure)
            /\ UNCHANGED broadcast_log
    /\ UNCHANGED << ws_received, nonWsVars >>

(***************************************************************************)
(* services/blockchain_service.py                                          *)
(***************************************************************************)

\* key material: the i-th create_identity() call generates the RSA pair i and
\* the blockchain account i
RsaPrivate(i) == [kind |-> "rsa_private", pair |-> i]
RsaPublic(i) == [kind |-> "rsa_public", pair |-> i]
ChainPrivate(i) == [kind |-> "blockchain_private", pair |-> i]

\* "0x" + sha256(private_key)[:40] (mock) or Account.create().address
Address(i) == "0x" \o ToString(i)

\* did = f"did:univo:{blockchain_address}"
Did(address) == "did:univo:" \o address

\* a DID no create_identity() call has produced
OutsiderDid == "did:example:outsider"

\* sha256(json.dumps(identity_record)).hexdigest(): one id per record
IdentityId(did) == "sha256(" \o did \o ")"

\* timedelta(days=365) in create_credential
CredentialValidityDays == 365

\* private_key.sign(canonical_json, PSS, SHA256): only the public key of the
\* same pair verifies it, and only over the same bytes
NoSignature == [pair |-> 0, payload |-> << >>]

Sign(private_key, payload) ==
    IF private_key.kind = "rsa_private"
    THEN [pair |-> private_key.pair, payload |-> payload]
    ELSE NoSignature

\* public_key.verify(signature, canonical_json, PSS, SHA256) does not raise
VerifySignature(public_key, payload, signature) ==
    /\ public_key.kind = "rsa_public"
    /\ signature # NoSignature
    /\ signature.pair = public_key.pair
    /\ signature.payload = payload

\* a credential; issuer "" : no issuer; expirationDate -1 : none;
\* has_proof FALSE : no "proof" key
NoCredential ==
    [issuer |-> "", subject |-> "", type |-> "", issuanceDate |-> 0 - 1,
     expirationDate |-> 0 - 1, has_proof |-> FALSE, jws |-> NoSignature]

\* json.dumps(credential, sort_keys=True, separators=(',', ':')) of a
\* credential without its proof: a function of the remaining members
CanonicalJson(credential) ==
    << credential.issuer, credential.subject, credential.type,
       credential.issuanceDate, credential.expirationDate >>

\* VerifiableCredential._sign_credential
SignCredential(credential, private_key) == Sign(private_key, CanonicalJson(credential))

\* VerifiableCredential.create_credential
CreateCredential(issuer, subject, type, private_key, today) ==
    LET credential ==
            [NoCredential EXCEPT !.issuer = issuer, !.subject = subject,
                                 !.type = type, !.issuanceDate = today,
                                 !.expirationDate = today + CredentialValidityDays]
    IN [credential EXCEPT !.has_proof = TRUE,
                          !.jws = SignCredential(credential, private_key)]

\* a verification that compares the signature with the credential as received,
\* proof included
VerifyWithProof(credential, public_key) ==
    /\ credential.has_proof
    /\ VerifySignature(public_key,
                       CanonicalJson(credential) \o << credential.jws >>,
                       credential.jws)

\* VerifiableCredential.verify_credential: the proof is taken out of a copy and
\* the rest is checked against proof.jws; a credential without "proof" makes
\* del raise, which is caught and answered False
VerifyCredentialSignature(credential, public_key) ==
    /\ credential.has_proof
    /\ VerifySignature(public_key, CanonicalJson(credential), credential.jws)

\* ReputationSystem: a fresh entry of reputation_scores (its last_updated
\* timestamp, which no operation reads, is left out)
FreshReputation ==
    [score |-> 50, meeting_count |-> 0, positive_feedback |-> 0,
     negative_feedback |-> 0, credentials_verified |-> 0]

Min(a, b) == IF a < b THEN a ELSE b
Max(a, b) == IF a > b THEN a ELSE b

\* the entries of reputation_scores after the "if identity_id not in" block
\* that opens calculate_reputation and update_reputation
WithEntry(scores, identity_id) ==
    IF identity_id \in DOMAIN scores
    THEN scores
    ELSE [i \in (DOMAIN scores) \cup {identity_id} |->
             IF i = identity_id THEN FreshReputation ELSE scores[i]]

NoReputation ==
    [identity_id |-> "", reputation_score |-> 0 - 1,
     breakdown |-> [base_score |-> 0, meeting_bonus |-> 0, feedback_score |-> 0,
                    credential_bonus |-> 0],
     statistics |-> FreshReputation]

\* a score that is not clamped to 0..100
ScoreUnclamped(reputation) ==
    LET base_score == 50
        meeting_bonus == Min(reputation.meeting_count * 2, 30)
        feedback_score ==
            (reputation.positive_feedback - reputation.negative_feedback) * 5
        credential_bonus == Min(reputation.credentials_verified * 10, 20)
    IN [final_score |-> base_score + meeting_bonus + feedback_score + credential_bonus,
        breakdown |-> [base_score |-> base_score, meeting_bonus |-> meeting_bonus,
                       feedback_score |-> feedback_score,
                       credential_bonus |-> credential_bonus]]

\* ReputationSystem.calculate_reputation, lines 237-243: the weighted score
Score(reputation) ==
    LET base_score == 50
        meeting_bonus == Min(reputation.meeting_count * 2, 30)
        feedback_score ==
            (reputation.positive_feedback - reputation.negative_feedback) * 5
        credential_bonus == Min(reputation.credentials_verified * 10, 20)
    IN [final_score |->
            Max(0, Min(100, base_score + meeting_bonus + feedback_score
                            + credential_bonus)),
        breakdown |-> [base_score |-> base_score, meeting_bonus |-> meeting_bonus,
                       feedback_score |-> feedback_score,
                       credential_bonus |-> credential_bonus]]

\* ReputationSystem.calculate_reputation: what it returns, given the entries
\* it leaves in reputation_scores
CalculateReputation(scores, identity_id) ==
    [identity_id |-> identity_id,
     reputation_score |-> Score(scores[identity_id]).final_score,
     breakdown |-> Score(scores[identity_id]).breakdown,
     statistics |-> scores[identity_id]]

EventTypes ==
    {"meeting_completed", "positive_feedback", "negative_feedback",
     "credential_verified", "profile_viewed"}

\* ReputationSystem.update_reputation: the entries it leaves
UpdateReputation(scores, identity_id, event_type) ==
    LET with == WithEntry(scores, identity_id)
        old == with[identity_id]
        new ==
            CASE event_type = "meeting_completed" ->
                     [old EXCEPT !.meeting_count = @ + 1]
              [] event_type = "positive_feedback" ->
                     [old EXCEPT !.positive_feedback = @ + 1]
              [] event_type = "negative_feedback" ->
                     [old EXCEPT !.negative_feedback = @ + 1]
              [] event_type = "credential_verified" ->
                     [old EXCEPT !.credentials_verified = @ + 1]
              [] OTHER -> old
    IN [with EXCEPT ![identity_id] = new]

NoKey == [kind |-> "none", pair |-> 0]
NoDidDocument == [id |-> "", publicKeyPem |-> NoKey]
NoVerificationKeys == [n \in {} |-> NoKey]

\* the argument of verify_credential: credential_data may lack "credential",
\* and credential_data["credential"] may be something else than a dict
NoCredentialData ==
    [has_credential |-> FALSE, is_dict |-> FALSE, credential |-> NoCredential]

\* the outcome of a BlockchainService operation: the exception it raised, or
\* the members of the dict it returned (the members an operation does not
\* return keep the values they have here)
NoChainResult ==
    [op |-> "", raised |-> NoException,
     did |-> "", identity_id |-> "", blockchain_address |-> "",
     did_document |-> NoDidDocument, verification_keys |-> NoVerificationKeys,
     valid |-> FALSE, reason |-> "", credential |-> NoCredential,
     issuer_did |-> "", subject_did |-> "", blockchain_verified |-> FALSE,
     found |-> FALSE, event_type |-> "", reputation |-> NoReputation,
     identities_registered |-> 0, contracts_deployed |-> 0,
     analytics |-> [total_identities |-> 0, sum |-> 0, high |-> 0, medium |-> 0,
                    low |-> 0]]

ChainRaised(op, e) == [NoChainResult EXCEPT !.op = op, !.raised = e]

ValueError(message) == [cls |-> "ValueError", arg |-> message]
AttributeError(message) == [cls |-> "AttributeError", arg |-> message]
KeyError(key) == [cls |-> "KeyError", arg |-> key]

RegisteredDids == DOMAIN identity_registry

\* the DIDs a caller passes: the registered ones and one that is not
DidInputs == RegisteredDids \cup {OutsiderDid}

\* f with x mapped to v
Put(f, x, v) == [y \in (DOMAIN f) \cup {x} |-> IF y = x THEN v ELSE f[y]]

\* verification_keys of a create_identity result that also carries the
\* private key
VerificationKeysWithPrivate(info) ==
    [n \in {"public_key", "private_key"} |->
        IF n = "public_key" THEN info.public_key ELSE info.private_key]

\* create_identity, lines 409-412: 'verification_keys': {'public_key': ...}
VerificationKeys(info) == [n \in {"public_key"} |-> info.public_key]

\* create_identity, lines 348-367 and 370-376: the DID document and the record
\* put on the blockchain for the i-th identity
DidDocument(i) == [id |-> Did(Address(i)), publicKeyPem |-> RsaPublic(i)]

IdentityRecord(i) ==
    [did |-> Did(Address(i)), did_document |-> DidDocument(i),
     blockchain_address |-> Address(i)]

\* create_identity, lines 390-399: the entry of identity_registry
IdentityInfo(i) ==
    [identity_id |-> IdentityId(Did(Address(i))), did_document |-> DidDocument(i),
     private_key |-> RsaPrivate(i), public_key |-> RsaPublic(i),
     blockchain_address |-> Address(i), blockchain_private_key |-> ChainPrivate(i)]

\* MockBlockchain.create_account: the entry of accounts
Account(i) == [private_key |-> ChainPrivate(i), balance |-> 1000, nonce |-> 0]

\* create_identity.  Both branches of "if WEB3_AVAILABLE and self.web3" make an
\* account and an identity id; only the mock branch writes them to the mock
\* blockchain (create_account, _get_identity_contract, call_contract).
CreateIdentity ==
    /\ chain_ops < MaxChainOps
    /\ chain_ops' = chain_ops + 1
    /\ LET i == Cardinality(RegisteredDids) + 1
           info == IdentityInfo(i)
       IN /\ IF web3_available
             THEN UNCHANGED << accounts, contract_addresses, contract_storage >>
             ELSE /\ accounts' = Put(accounts, Address(i), Account(i))
                  /\ contract_addresses' = contract_addresses \cup {"identity"}
                  /\ contract_storage' =
                        [contract_storage EXCEPT
                            !.identities = @ \cup {IdentityRecord(i)}]
          /\ identity_registry' = Put(identity_registry, Did(Address(i)), info)
          /\ reputation_scores' = WithEntry(reputation_scores, info.identity_id)
          /\ chain_result' =
                [NoChainResult EXCEPT
                    !.op = "create_identity", !.did = Did(Address(i)),
                    !.identity_id = info.identity_id,
                    !.did_document = info.did_document,
                    !.blockchain_address = info.blockchain_address,
                    !.verification_keys = VerificationKeys(info)]
    /\ UNCHANGED << web3_available, now, issued, nonChainVars >>

\* a ledger check that looks the credential up in the contract storage
VerifyOnBlockchainLookup(credential, storage) == credential \in storage.credentials

\* _verify_on_blockchain: "return True"
VerifyOnBlockchain(credential, storage) == TRUE

\* an except clause that lets the exception through
VerifyReraise(e) == ChainRaised("verify_credential", e)

\* verify_credential, lines 474-476: "except Exception as e"
VerifyExcept(e) ==
    [NoChainResult EXCEPT !.op = "verify_credential",
                          !.reason = "Verification error: " \o Str(e)]

\* verify_credential up to the reputation update: the dict it returns
VerifyResult(credential_data) ==
    LET credential == credential_data.credential
        issuer_did == credential.issuer
        answer(reason) ==
            [NoChainResult EXCEPT !.op = "verify_credential", !.reason = reason]
    IN IF ~credential_data.has_credential
       THEN VerifyExcept(KeyError("credential"))
       ELSE IF ~credential_data.is_dict
       THEN VerifyExcept(AttributeError("'str' object has no attribute 'get'"))
       ELSE IF issuer_did = ""
       THEN answer("No issuer specified")
       ELSE IF issuer_did \notin RegisteredDids
       THEN answer("Issuer not found")
       ELSE IF ~VerifyCredentialSignature(credential,
                                          identity_registry[issuer_did].public_key)
       THEN answer("Invalid signature")
       ELSE IF credential.expirationDate # 0 - 1 /\ now > credential.expirationDate
       THEN answer("Credential expired")
       ELSE [answer("") EXCEPT
                !.valid = TRUE, !.credential = credential,
                !.issuer_did = issuer_did, !.subject_did = credential.subject,
                !.blockchain_verified =
                    VerifyOnBlockchain(credential, contract_storage)]

\* the credentials a client can make out of the credential c it holds: c
\* itself, and c with one member replaced or removed
Tampered(c) ==
    {c}
    \cup {[c EXCEPT !.issuer = i] : i \in {""} \cup DidInputs}
    \cup {[c EXCEPT !.subject = OutsiderDid], [c EXCEPT !.expirationDate = 0 - 1],
          [c EXCEPT !.has_proof = FALSE, !.jws = NoSignature]}

\* the credentials a client can write without any credential at hand
Forged == {[NoCredential EXCEPT !.issuer = i] : i \in {""} \cup DidInputs}

CredentialInputs ==
    {NoCredentialData, [NoCredentialData EXCEPT !.has_credential = TRUE]}
    \cup {[has_credential |-> TRUE, is_dict |-> TRUE, credential |-> t] :
            t \in Forged \cup UNION {Tampered(c) : c \in issued}}

\* verify_credential
VerifyCredential(credential_data) ==
    LET result == VerifyResult(credential_data)
        updates == result.valid /\ result.subject_did \in RegisteredDids
    IN /\ updates => chain_ops < MaxChainOps
       /\ chain_result' = result
       /\ IF updates
          THEN /\ reputation_scores' =
                     UpdateReputation(reputation_scores,
                                      identity_registry[result.subject_did].identity_id,
                                      "credential_verified")
               /\ chain_ops' = chain_ops + 1
          ELSE UNCHANGED << reputation_scores, chain_ops >>
       /\ UNCHANGED << web3_available, identity_registry, accounts,
                       contract_addresses, contract_storage, now, issued,
                       nonChainVars >>

CredentialTypes == {"membership"}

\* issue_credential (with _store_credential_on_blockchain)
IssueCredential(issuer_did, subject_did, credential_type) ==
    IF issuer_did \notin RegisteredDids
    THEN /\ chain_result' = ChainRaised("issue_credential", ValueError("Issuer not found"))
         /\ UNCHANGED << web3_available, identity_registry, accounts,
                         contract_addresses, contract_storage, reputation_scores,
                         now, chain_ops, issued, nonChainVars >>
    ELSE LET credential ==
                 CreateCredential(issuer_did, subject_did, credential_type,
                                  identity_registry[issuer_did].private_key, now)
             updates == subject_did \in RegisteredDids
         IN /\ chain_ops < MaxChainOps
            /\ chain_ops' = chain_ops + 1
            /\ IF web3_available
               THEN UNCHANGED << contract_addresses, contract_storage >>
               ELSE /\ contract_addresses' = contract_addresses \cup {"identity"}
                    /\ contract_storage' =
                          [contract_storage EXCEPT !.credentials = @ \cup {credential}]
            /\ IF updates
               THEN reputation_scores' =
                       UpdateReputation(reputation_scores,
                                        identity_registry[subject_did].identity_id,
                                        "credential_verified")
               ELSE UNCHANGED reputation_scores
            /\ issued' = issued \cup {credential}
            /\ chain_result' =
                  [NoChainResult EXCEPT !.op = "issue_credential",
                                        !.credential = credential]
            /\ UNCHANGED << web3_available, identity_registry, accounts, now,
                            nonChainVars >>

\* get_reputation
GetReputation(identity_did) ==
    /\ IF identity_did \notin RegisteredDids
       THEN /\ chain_result' = ChainRaised("get_reputation", ValueError("Identity not found"))
            /\ UNCHANGED reputation_scores
       ELSE LET identity_id == identity_registry[identity_did].identity_id
                scores == WithEntry(reputation_scores, identity_id)
            IN /\ reputation_scores' = scores
               /\ chain_result' =
                     [NoChainResult EXCEPT
                         !.op = "get_reputation", !.did = identity_did,
                         !.reputation = CalculateReputation(scores, identity_id)]
    /\ UNCHANGED << web3_available, identity_registry, accounts, contract_addresses,
                    contract_storage, now, chain_ops, issued, nonChainVars >>

\* BlockchainService.update_reputation
ServiceUpdateReputation(identity_did, event_type) ==
    /\ IF identity_did \notin RegisteredDids
       THEN /\ chain_result' =
                  ChainRaised("update_reputation", ValueError("Identity not found"))
            /\ UNCHANGED << reputation_scores, chain_ops >>
       ELSE LET identity_id == identity_registry[identity_did].identity_id
                scores == UpdateReputation(reputation_scores, identity_id, event_type)
            IN /\ chain_ops < MaxChainOps
               /\ chain_ops' = chain_ops + 1
               /\ reputation_scores' = scores
               /\ chain_result' =
                     [NoChainResult EXCEPT
                         !.op = "update_reputation", !.did = identity_did,
                         !.event_type = event_type,
                         !.reputation = CalculateReputation(scores, identity_id)]
    /\ UNCHANGED << web3_available, identity_registry, accounts, contract_addresses,
                    contract_storage, now, issued, nonChainVars >>

\* resolve_did
ResolveDid(did) ==
    /\ chain_result' =
          IF did \notin RegisteredDids
          THEN [NoChainResult EXCEPT !.op = "resolve_did"]
          ELSE [NoChainResult EXCEPT
                   !.op = "resolve_did", !.found = TRUE,
                   !.did_document = identity_registry[did].did_document]
    /\ UNCHANGED << web3_available, identity_registry, accounts, contract_addresses,
                    contract_storage, reputation_scores, now, chain_ops,
                    issued, nonChainVars >>

\* BlockchainService.health_check
ChainHealthCheck ==
    /\ chain_result' =
          [NoChainResult EXCEPT
              !.op = "health_check",
              !.identities_registered = Cardinality(RegisteredDids),
              !.contracts_deployed = Cardinality(contract_addresses)]
    /\ UNCHANGED << web3_available, identity_registry, accounts, contract_addresses,
                    contract_storage, reputation_scores, now, chain_ops,
                    issued, nonChainVars >>

RECURSIVE Sum(_, _)
Sum(f, S) ==
    IF S = {} THEN 0 ELSE LET x == CHOOSE x \in S : TRUE IN f[x] + Sum(f, S \ {x})

\* get_identity_analytics; average_reputation is sum / total_identities
GetIdentityAnalytics ==
    LET ids == {identity_registry[d].identity_id : d \in RegisteredDids}
        score == [i \in ids |-> CalculateReputation(reputation_scores, i).reputation_score]
    IN /\ chain_result' =
             [NoChainResult EXCEPT
                 !.op = "get_identity_analytics",
                 !.analytics =
                     [total_identities |-> Cardinality(RegisteredDids),
                      sum |-> Sum(score, ids),
                      high |-> Cardinality({i \in ids : score[i] >= 80}),
                      medium |-> Cardinality({i \in ids : 50 <= score[i] /\ score[i] < 80}),
                      low |-> Cardinality({i \in ids : score[i] < 50})]]
       /\ UNCHANGED << web3_available, identity_registry, accounts,
                       contract_addresses, contract_storage, reputation_scores, now,
                       chain_ops, issued, nonChainVars >>

\* datetime.utcnow() moves on: by the validity of a credential, or by a day more
TickDays == {CredentialValidityDays, CredentialValidityDays + 1}

Tick(days) ==
    /\ chain_ops < MaxChainOps
    /\ chain_ops' = chain_ops + 1
    /\ now' = now + days
    /\ UNCHANGED << web3_available, identity_registry, accounts, contract_addresses,
                    contract_storage, reputation_scores, issued, chain_result,
                    nonChainVars >>

NextChain ==
    \/ CreateIdentity
    \/ \E cd \in CredentialInputs : VerifyCredential(cd)
    \/ \E i, d \in DidInputs : \E t \in CredentialTypes : IssueCredential(i, d, t)
    \/ \E d \in DidInputs : GetReputation(d)
    \/ \E d \in DidInputs : \E e \in EventTypes : ServiceUpdateReputation(d, e)
    \/ \E d \in DidInputs : ResolveDid(d)
    \/ ChainHealthCheck
    \/ GetIdentityAnalytics
    \/ \E days \in TickDays : Tick(days)

EmptyStorage == [identities |-> {}, credentials |-> {}]
(***************************************************************************)
(* services/quantum_service.py                                             *)
(***************************************************************************)

\* a str is a sequence of code points, a bytes object a sequence of 0..255, a
\* hex string a sequence of hex digits 0..15
Fill(n, x) == [i \in 1..n |-> x]

\* str.encode('utf-8'), for code points below 2048
Utf8Char(c) == IF c < 128 THEN << c >> ELSE << 192 + (c \div 64), 128 + (c % 64) >>

RECURSIVE Utf8Encode(_)
Utf8Encode(text) ==
    IF text = << >> THEN << >> ELSE Utf8Char(Head(text)) \o Utf8Encode(Tail(text))

\* bytes.decode('utf-8'): the text, or ok = FALSE for UnicodeDecodeError
RECURSIVE Utf8Decode(_)
Utf8Decode(bytes) ==
    IF bytes = << >>
    THEN [ok |-> TRUE, text |-> << >>]
    ELSE IF bytes[1] < 128
    THEN LET rest == Utf8Decode(Tail(bytes))
         IN [ok |-> rest.ok, text |-> << bytes[1] >> \o rest.text]
    ELSE IF /\ bytes[1] >= 194 /\ bytes[1] < 224 /\ Len(bytes) >= 2
            /\ bytes[2] >= 128 /\ bytes[2] < 192
    THEN LET rest == Utf8Decode(Tail(Tail(bytes)))
         IN [ok |-> rest.ok,
             text |-> << (bytes[1] - 192) * 64 + (bytes[2] - 128) >> \o rest.text]
    ELSE [ok |-> FALSE, text |-> << >>]

\* base64.b64encode: the 6-bit digits, 64 standing for '='
RECURSIVE B64Encode(_)
B64Encode(bytes) ==
    IF bytes = << >>
    THEN << >>
    ELSE IF Len(bytes) = 1
    THEN << bytes[1] \div 4, (bytes[1] % 4) * 16, 64, 64 >>
    ELSE IF Len(bytes) = 2
    THEN << bytes[1] \div 4, (bytes[1] % 4) * 16 + (bytes[2] \div 16),
            (bytes[2] % 16) * 4, 64 >>
    ELSE << bytes[1] \div 4, (bytes[1] % 4) * 16 + (bytes[2] \div 16),
            (bytes[2] % 16) * 4 + (bytes[3] \div 64), bytes[3] % 64 >>
         \o B64Encode(SubSeq(bytes, 4, Len(bytes)))

\* base64.b64decode of a string whose length is a multiple of four
RECURSIVE B64Decode(_)
B64Decode(digits) ==
    IF Len(digits) < 4
    THEN << >>
    ELSE LET d == digits
             b1 == d[1] * 4 + (d[2] \div 16)
             b2 == (d[2] % 16) * 16 + (d[3] \div 4)
             b3 == (d[3] % 4) * 64 + d[4]
         IN IF d[3] = 64 THEN << b1 >>
            ELSE IF d[4] = 64 THEN << b1, b2 >>
            ELSE << b1, b2, b3 >> \o B64Decode(SubSeq(d, 5, Len(d)))

\* bytes.fromhex, for a string with an even number of digits
FromHex(hex) == [i \in 1..(Len(hex) \div 2) |-> 16 * hex[2 * i - 1] + hex[2 * i]]

\* the AES block size and the key bytes kept by "[:32]"
BlockSize == 16
AesKeyBytes == 32

\* x[:n] and x[n:] for 0 <= n
Take(x, n) == SubSeq(x, 1, IF n < Len(x) THEN n ELSE Len(x))
Drop(x, n) == SubSeq(x, n + 1, Len(x))

\* x[:-n]: nothing for n = 0, and nothing when n exceeds the length
DropLast(x, n) == IF n = 0 \/ n >= Len(x) THEN << >> ELSE SubSeq(x, 1, Len(x) - n)

\* algorithms.AES(key) accepts keys of 128, 192 and 256 bits
ValidAesKey(key) == Len(key) \in {16, 24, 32}

\* a stand-in for the AES block transformation in CBC mode: each byte of a
\* block is shifted by the byte before it in the chain (the IV for the first
\* block) and by the key; decryption undoes it with the same key and IV
RoundKey(key) == [j \in 1..BlockSize |-> (key[j] + key[Len(key) - BlockSize + j]) % 256]

CbcEncrypt(key, iv, plain) ==
    LET c[i \in 1..Len(plain)] ==
            (plain[i] + (IF i <= BlockSize THEN iv[i] ELSE c[i - BlockSize])
             + RoundKey(key)[((i - 1) % BlockSize) + 1]) % 256
    IN [i \in 1..Len(plain) |-> c[i]]

CbcDecrypt(key, iv, cipher) ==
    [i \in 1..Len(cipher) |->
        (cipher[i] + 512 - (IF i <= BlockSize THEN iv[i] ELSE cipher[i - BlockSize])
         - RoundKey(key)[((i - 1) % BlockSize) + 1]) % 256]

\* a padding that adds nothing to data that already fills its blocks
PaddingLengthNoFullBlock(n) == (BlockSize - (n % BlockSize)) % BlockSize

\* _aes_encrypt, line 494: padding_length = 16 - (len(data) % 16)
PaddingLength(n) == BlockSize - (n % BlockSize)

\* _aes_encrypt: the bytes it returns (IV + ciphertext), or the exception
AesEncrypt(data, key_hex, iv) ==
    LET key == Take(FromHex(key_hex), AesKeyBytes)
        padding_length == PaddingLength(Len(data))
        padded_data == data \o Fill(padding_length, padding_length)
    IN IF ~ValidAesKey(key)
       THEN [raised |-> ValueError("Invalid key size"), bytes |-> << >>]
       ELSE IF Len(padded_data) % BlockSize # 0
       THEN [raised |-> ValueError("data is not a multiple of the block length"),
             bytes |-> << >>]
       ELSE [raised |-> NoException, bytes |-> iv \o CbcEncrypt(key, iv, padded_data)]

\* _aes_decrypt: the bytes it returns, or the exception
AesDecrypt(encrypted_data, key_hex) ==
    LET key == Take(FromHex(key_hex), AesKeyBytes)
        iv == Take(encrypted_data, BlockSize)
        ciphertext == Drop(encrypted_data, BlockSize)
        padded_data == CbcDecrypt(key, iv, ciphertext)
    IN IF ~ValidAesKey(key)
       THEN [raised |-> ValueError("Invalid key size"), bytes |-> << >>]
       ELSE IF Len(iv) # BlockSize
       THEN [raised |-> ValueError("Invalid IV size"), bytes |-> << >>]
       ELSE IF Len(ciphertext) % BlockSize # 0
       THEN [raised |-> ValueError("data is not a multiple of the block length"),
             bytes |-> << >>]
       ELSE IF padded_data = << >>
       THEN [raised |-> [cls |-> "IndexError", arg |-> "index out of range"],
             bytes |-> << >>]
       ELSE [raised |-> NoException,
             bytes |-> DropLast(padded_data, padded_data[Len(padded_data)])]

\* A number modulo self.modulus = 2**32 - 1 is kept as an integer v of small
\* absolute value that stands for v % (2**32 - 1): the code computes them from
\* key coefficients in -13..13, noise in -5..5 and bytes.

\* byte k (0 the lowest) of the uint32 v % (2**32 - 1): for v < 0 that number is
\* 2**32 - 1 + v, the bitwise complement of -v
Uint32Byte(v, k) ==
    LET b(x) == (x \div (256 ^ k)) % 256
    IN IF v >= 0 THEN b(v) ELSE 255 - b(-v)

\* poly.astype(np.uint32).tobytes(): four bytes a coefficient, lowest first
ToBytes(poly) ==
    [j \in 1..(4 * Len(poly)) |-> Uint32Byte(poly[((j - 1) \div 4) + 1], (j - 1) % 4)]

\* generate_lattice_keypair, from what np.random.randint returned for the
\* private key (-1..1) and for the noise (-10..10)
GenerateLatticeKeypair(private_key, noise) ==
    [public_key |-> [i \in 1..LatticeDimension |-> private_key[i] * 3 + noise[i]],
     private_key |-> private_key]

NoLatticeKeypair == [public_key |-> << >>, private_key |-> << >>]

\* the draws of generate_lattice_keypair
PrivateKeyDraws ==
    {Fill(LatticeDimension, 0), [i \in 1..LatticeDimension |-> (i % 3) - 1]}
KeyNoiseDraws == {Fill(LatticeDimension, 0), Fill(LatticeDimension, -10)}
LatticeKeypairs ==
    {GenerateLatticeKeypair(p, e) : p \in PrivateKeyDraws, e \in KeyNoiseDraws}

\* np.random.randint(-5, 6, lattice_dimension) in lattice_encrypt
NoiseDraws ==
    {Fill(LatticeDimension, 0), Fill(LatticeDimension, 1), Fill(LatticeDimension, -5)}

\* lattice_encrypt: the bytes it returns, or the exception
LatticeEncrypt(message, public_key, noise) ==
    IF Len(message) > LatticeDimension
    THEN [raised |-> ValueError("Message too long for lattice dimension"),
          bytes |-> << >>]
    ELSE LET padded_message == message \o Fill(LatticeDimension - Len(message), 0)
             ciphertext ==
                 [i \in 1..LatticeDimension |->
                     padded_message[i] + noise[i] * public_key[i]]
         IN [raised |-> NoException, bytes |-> ToBytes(ciphertext)]

\* lattice_decrypt: cipher_poly % 256 is the lowest byte of each coefficient,
\* and the message ends before the first zero among them; the private key
\* takes no part
LatticeDecrypt(ciphertext, private_key) ==
    IF Len(ciphertext) % 4 # 0
    THEN [raised |-> ValueError("buffer size must be a multiple of element size"),
          bytes |-> << >>]
    ELSE LET decrypted == [i \in 1..(Len(ciphertext) \div 4) |-> ciphertext[4 * i - 3]]
             zeros == {i \in DOMAIN decrypted : decrypted[i] = 0}
             end_idx == CHOOSE i \in zeros : \A j \in zeros : i <= j
         IN [raised |-> NoException,
             bytes |-> IF zeros = {} THEN decrypted ELSE Take(decrypted, end_idx - 1)]

ChannelIds == {"channel" \o ToString(i) : i \in 1..MaxChannels}

\* key_request['type'], key_request['length']
KeyTypes == {"quantum"}
KeyLengths == {256}

\* generate_bb84_key: a hex string of 2 * (key_length // 8) digits
\* (secrets.token_hex(key_length // 8), and as many from the simulated
\* protocol for these lengths)
Bb84Keys(key_length) ==
    LET digits == 2 * (key_length \div 8)
    IN {Fill(digits, 10), [i \in 1..digits |-> i % 16]}

\* timedelta(hours=24) in generate_keys
KeyLifetimeHours == 24

\* the messages to encrypt: every length up to MaxMessageLen of one character:
\* U+0001 or U+0010, whose bytes look like padding, or U+00E9, which takes two
\* bytes
MessageChars == {1, 16, 233}
Messages == {Fill(n, c) : n \in 0..MaxMessageLen, c \in MessageChars}

\* os.urandom(16)
Ivs == {Fill(BlockSize, 0), Fill(BlockSize, 200)}

NoQuantumResult ==
    [op |-> "", raised |-> NoException, channel_id |-> "", key_type |-> "",
     quantum_key |-> << >>, key_length |-> 0, public_key |-> << >>,
     private_key |-> << >>, encrypted_data |-> << >>,
     decrypted_message |-> << >>, status |-> "", created_at |-> -1,
     message_count |-> -1, participants |-> -1, expires_at |-> -1]

QuantumRaised(op, e) == [NoQuantumResult EXCEPT !.op = op, !.raised = e]

\* key_cache[channel_id]['keys'] before any key is made; a hybrid entry keeps
\* quantum_component['key'] as quantum_key and the post_quantum_component's
\* keys as public_key and private_key
NoKeys ==
    [channel_id |-> "", key_type |-> "", quantum_key |-> << >>, key_length |-> 0,
     public_key |-> << >>, private_key |-> << >>]

NoHeld ==
    [channel_id |-> "", message |-> << >>, quantum_key |-> << >>,
     keys |-> NoKeys, encrypted_data |-> << >>]

\* what the service draws at random and what its clients send in a run
quantumDraws == << client_message, urandom_iv, lattice_noise >>

\* generate_keys (lines 196-241): the result for each key_request['type'], any
\* type but 'quantum' and 'post_quantum' being 'hybrid'; quantum_key is the key
\* generate_bb84_key returned, keypair what generate_lattice_keypair returned
GeneratedKeys(channel_id, key_type, quantum_key, keypair) ==
    IF key_type = "quantum"
    THEN [NoKeys EXCEPT
             !.channel_id = channel_id, !.key_type = "quantum",
             !.quantum_key = quantum_key, !.key_length = Len(quantum_key) * 4]
    ELSE IF key_type = "post_quantum"
    THEN [NoKeys EXCEPT
             !.channel_id = channel_id, !.key_type = "post_quantum",
             !.public_key = keypair.public_key, !.private_key = keypair.private_key]
    ELSE [NoKeys EXCEPT
             !.channel_id = channel_id, !.key_type = "hybrid",
             !.quantum_key = quantum_key,
             !.public_key = keypair.public_key, !.private_key = keypair.private_key]

\* generate_keys
GenerateKeys(channel_id, key_type, key_length, quantum_key, keypair) ==
    /\ quantum_ops < MaxQuantumOps
    /\ quantum_ops' = quantum_ops + 1
    /\ LET keys == GeneratedKeys(channel_id, key_type, quantum_key, keypair)
       IN /\ key_cache' =
                Put(key_cache, channel_id,
                    [keys |-> keys, expires_at |-> clock_hours + KeyLifetimeHours])
          /\ active_channels' =
                Put(active_channels, channel_id,
                    [created_at |-> clock_hours, key_type |-> key_type,
                     participants |-> << >>, message_count |-> 0])
          /\ quantum_result' =
                [NoQuantumResult EXCEPT
                    !.op = "generate_keys", !.channel_id = channel_id,
                    !.key_type = keys.key_type, !.quantum_key = keys.quantum_key,
                    !.key_length = keys.key_length, !.public_key = keys.public_key,
                    !.private_key = keys.private_key]
    /\ quantum_log' = Put(quantum_log, channel_id, << "generate_keys" >>)
    /\ UNCHANGED << clock_hours, quantumDraws, held, nonQuantumVars >>

\* encrypt_data (lines 277-317): the encrypted bytes by the key type of the
\* cached keys, or the exception
EncryptedBytes(keys, message, iv, noise) ==
    IF keys.key_type = "quantum"
    THEN AesEncrypt(message, keys.quantum_key, iv)
    ELSE IF keys.key_type = "post_quantum"
    THEN LatticeEncrypt(message, keys.public_key, noise)
    ELSE LET pq_encrypted == LatticeEncrypt(message, keys.public_key, noise)
         IN IF pq_encrypted.raised # NoException
            THEN pq_encrypted
            ELSE AesEncrypt(pq_encrypted.bytes, keys.quantum_key, iv)

\* decrypt_data (lines 342-361): the decrypted bytes, or the exception
DecryptedBytes(keys, encrypted_data) ==
    IF keys.key_type = "quantum"
    THEN AesDecrypt(encrypted_data, keys.quantum_key)
    ELSE IF keys.key_type = "post_quantum"
    THEN LatticeDecrypt(encrypted_data, keys.private_key)
    ELSE LET pq_encrypted == AesDecrypt(encrypted_data, keys.quantum_key)
         IN IF pq_encrypted.raised # NoException
            THEN pq_encrypted
            ELSE LatticeDecrypt(pq_encrypted.bytes, keys.private_key)

\* a service that counts no message
CountNoMessage(channels, channel_id) == channels

\* encrypt_data, lines 320-321: "Update channel stats"
CountMessage(channels, channel_id) ==
    IF channel_id \in DOMAIN channels
    THEN [channels EXCEPT ![channel_id].message_count = @ + 1]
    ELSE channels

\* encrypt_data
EncryptData(channel_id, text, iv, noise) ==
    LET message == Utf8Encode(text)
        cached_keys == key_cache[channel_id].keys
        encrypted == EncryptedBytes(cached_keys, message, iv, noise)
    IN IF channel_id \notin DOMAIN key_cache
       THEN /\ quantum_result' =
                  QuantumRaised("encrypt_data",
                                ValueError("Channel not found or keys expired"))
            /\ UNCHANGED << key_cache, active_channels, clock_hours, quantum_ops,
                            quantumDraws, held, quantum_log, nonQuantumVars >>
       ELSE IF encrypted.raised # NoException
       THEN /\ quantum_result' = QuantumRaised("encrypt_data", encrypted.raised)
            /\ UNCHANGED << key_cache, active_channels, clock_hours, quantum_ops,
                            quantumDraws, held, quantum_log, nonQuantumVars >>
       ELSE /\ quantum_ops < MaxQuantumOps
            /\ quantum_ops' = quantum_ops + 1
            /\ active_channels' = CountMessage(active_channels, channel_id)
            /\ quantum_log' =
                  Put(quantum_log, channel_id,
                      Append(quantum_log[channel_id], "encrypt_data"))
            /\ quantum_result' =
                  [NoQuantumResult EXCEPT
                      !.op = "encrypt_data", !.channel_id = channel_id,
                      !.encrypted_data = B64Encode(encrypted.bytes)]
            /\ held' =
                  [channel_id |-> channel_id, message |-> text,
                   quantum_key |-> cached_keys.quantum_key, keys |-> cached_keys,
                   encrypted_data |-> B64Encode(encrypted.bytes)]
            /\ UNCHANGED << key_cache, clock_hours, quantumDraws, nonQuantumVars >>

\* decrypt_data
DecryptData(channel_id, encrypted_text) ==
    LET encrypted_data == B64Decode(encrypted_text)
        decrypted == DecryptedBytes(key_cache[channel_id].keys, encrypted_data)
        decoded == Utf8Decode(decrypted.bytes)
    IN /\ quantum_result' =
             IF channel_id \notin DOMAIN key_cache
             THEN QuantumRaised("decrypt_data",
                                ValueError("Channel not found or keys expired"))
             ELSE IF decrypted.raised # NoException
             THEN QuantumRaised("decrypt_data", decrypted.raised)
             ELSE IF ~decoded.ok
             THEN QuantumRaised("decrypt_data",
                                [cls |-> "UnicodeDecodeError",
                                 arg |-> "'utf-8' codec can't decode"])
             ELSE [NoQuantumResult EXCEPT
                      !.op = "decrypt_data", !.channel_id = channel_id,
                      !.decrypted_message = decoded.text]
       /\ UNCHANGED << key_cache, active_channels, clock_hours, quantum_ops,
                       quantumDraws, held, quantum_log, nonQuantumVars >>

\* channel_request['participants'] and channel_request['security_level']
ParticipantLists == {<< >>, << "alice", "bob" >>}
SecurityLevels == {"quantum", "post_quantum", "hybrid"}

\* establish_secure_channel: channel_id is what secrets.token_hex(16) returned;
\* generate_keys caches the keys and writes the channel's entry, which lines
\* 405-410 then replace by one that has 'info' and no 'key_type'
EstablishSecureChannel(participants, security_level, channel_id, quantum_key, keypair) ==
    /\ quantum_ops < MaxQuantumOps
    /\ quantum_ops' = quantum_ops + 1
    /\ LET keys == GeneratedKeys(channel_id, security_level, quantum_key, keypair)
           channel_info ==
               [channel_id |-> channel_id, participants |-> participants,
                security_level |-> security_level, established_at |-> clock_hours,
                expires_at |-> clock_hours + KeyLifetimeHours,
                key_info |-> [type |-> keys.key_type]]
       IN /\ key_cache' =
                Put(key_cache, channel_id,
                    [keys |-> keys, expires_at |-> clock_hours + KeyLifetimeHours])
          /\ active_channels' =
                Put(active_channels, channel_id,
                    [info |-> channel_info, created_at |-> clock_hours,
                     participants |-> participants, message_count |-> 0])
          /\ quantum_result' =
                [NoQuantumResult EXCEPT
                    !.op = "establish_secure_channel", !.channel_id = channel_id,
                    !.key_type = keys.key_type, !.participants = Len(participants),
                    !.expires_at = clock_hours + KeyLifetimeHours]
    /\ quantum_log' = Put(quantum_log, channel_id, << "establish_secure_channel" >>)
    /\ UNCHANGED << clock_hours, quantumDraws, held, nonQuantumVars >>

\* get_channel_status: channel['key_type'] raises KeyError when the entry has
\* no such key; expires_at is -1 for None
GetChannelStatus(channel_id) ==
    /\ quantum_result' =
          IF channel_id \notin DOMAIN active_channels
          THEN [NoQuantumResult EXCEPT !.op = "get_channel_status", !.status = "not_found"]
          ELSE LET channel == active_channels[channel_id]
               IN IF "key_type" \notin DOMAIN channel
                  THEN QuantumRaised("get_channel_status", KeyError("key_type"))
                  ELSE [NoQuantumResult EXCEPT
                           !.op = "get_channel_status", !.channel_id = channel_id,
                           !.status = "active", !.created_at = channel.created_at,
                           !.message_count = channel.message_count,
                           !.participants = Len(channel.participants),
                           !.key_type = channel.key_type,
                           !.expires_at =
                               IF channel_id \in DOMAIN key_cache
                               THEN key_cache[channel_id].expires_at
                               ELSE -1]
    /\ UNCHANGED << key_cache, active_channels, clock_hours, quantum_ops,
                    quantumDraws, held, quantum_log, nonQuantumVars >>

\* a cleanup that forgets the expired keys and keeps their channels
CleanupKeysOnly ==
    LET expired_channels ==
            {c \in DOMAIN key_cache : clock_hours > key_cache[c].expires_at}
    IN /\ key_cache' = [c \in (DOMAIN key_cache) \ expired_channels |-> key_cache[c]]
       /\ quantum_result' =
             [NoQuantumResult EXCEPT !.op = "cleanup_expired_channels"]
       /\ UNCHANGED << active_channels, clock_hours, quantum_ops, quantumDraws, held, quantum_log,
                       nonQuantumVars >>

\* cleanup_expired_channels
CleanupExpiredChannels ==
    LET expired_channels ==
            {c \in DOMAIN key_cache : clock_hours > key_cache[c].expires_at}
    IN /\ key_cache' = [c \in (DOMAIN key_cache) \ expired_channels |-> key_cache[c]]
       /\ active_channels' =
             [c \in (DOMAIN active_channels) \ expired_channels |-> active_channels[c]]
       /\ quantum_result' =
             [NoQuantumResult EXCEPT !.op = "cleanup_expired_channels"]
       /\ UNCHANGED << clock_hours, quantum_ops, quantumDraws, held, quantum_log, nonQuantumVars >>

\* datetime.utcnow() moves on, by a little more than half the lifetime of a
\* key (a key outlives one such step and not two) or by a little more than its
\* lifetime
TickHours == {KeyLifetimeHours \div 2 + 1, KeyLifetimeHours + 1}

QuantumTick(hours) ==
    /\ quantum_ops < MaxQuantumOps
    /\ quantum_ops' = quantum_ops + 1
    /\ clock_hours' = clock_hours + hours
    /\ UNCHANGED << key_cache, active_channels, quantumDraws, held, quantum_log, quantum_result,
                    nonQuantumVars >>

NextQuantum ==
    \/ \E c \in ChannelIds : \E t \in KeyTypes : \E n \in KeyLengths :
          \E k \in Bb84Keys(n) : GenerateKeys(c, t, n, k, NoLatticeKeypair)
    \/ \E c \in ChannelIds : EncryptData(c, client_message, urandom_iv, lattice_noise)
    \/ \E c \in ChannelIds : DecryptData(c, held.encrypted_data)
    \/ CleanupExpiredChannels
    \/ \E h \in TickHours : QuantumTick(h)

\* the key types whose channels use the lattice cipher, the messages their
\* clients encrypt (up to one byte more than the cipher takes; U+0000 is a
\* character too) and the length of the quantum key of a hybrid channel
LatticeKeyTypes == {"post_quantum", "hybrid"}
LatticeMessageChars == {0, 65, 233}
LatticeMessages ==
    {Fill(n, c) : n \in 0..(LatticeDimension + 1), c \in LatticeMessageChars}

NextLattice ==
    \/ \E c \in ChannelIds : \E t \in LatticeKeyTypes : \E n \in KeyLengths :
          \E k \in Bb84Keys(n) : \E kp \in LatticeKeypairs : GenerateKeys(c, t, n, k, kp)
    \/ \E c \in ChannelIds : EncryptData(c, client_message, urandom_iv, lattice_noise)
    \/ \E c \in ChannelIds : DecryptData(c, held.encrypted_data)
    \/ CleanupExpiredChannels
    \/ \E h \in TickHours : QuantumTick(h)

\* the service with channels of every key type, made by generate_keys and by
\* establish_secure_channel: one quantum key and one lattice key pair, and a
\* message that the lattice cipher takes or one that is too long for it
ChannelKeys == {Fill(64, 10)}
ChannelKeypairs ==
    {GenerateLatticeKeypair(Fill(LatticeDimension, 1), Fill(LatticeDimension, 2))}
ChannelMessages == {Fill(1, 65), Fill(LatticeDimension + 1, 65)}

NextChannels ==
    \/ \E c \in ChannelIds : \E t \in SecurityLevels : \E n \in KeyLengths :
          \E k \in ChannelKeys : \E kp \in ChannelKeypairs : GenerateKeys(c, t, n, k, kp)
    \/ \E p \in ParticipantLists : \E l \in SecurityLevels : \E c \in ChannelIds :
          \E k \in ChannelKeys : \E kp \in ChannelKeypairs :
             EstablishSecureChannel(p, l, c, k, kp)
    \/ \E c \in ChannelIds : EncryptData(c, client_message, urandom_iv, lattice_noise)
    \/ \E c \in ChannelIds : DecryptData(c, held.encrypted_data)
    \/ \E c \in ChannelIds : GetChannelStatus(c)
    \/ CleanupExpiredChannels
    \/ \E h \in TickHours : QuantumTick(h)

(***************************************************************************)
(* services/quantum_service.py: QuantumKeyDistribution                     *)
(***************************************************************************)

\* int(key_string, 2) of a string of bits, highest first
RECURSIVE BitsToInt(_)
BitsToInt(bits) ==
    IF bits = << >>
    THEN 0
    ELSE 2 * BitsToInt(SubSeq(bits, 1, Len(bits) - 1)) + bits[Len(bits)]

\* hex(n)[2:]: the hex digits of n, highest first, with no leading zero
RECURSIVE HexDigits(_)
HexDigits(n) == IF n < 16 THEN << n >> ELSE HexDigits(n \div 16) \o << n % 16 >>

\* str.zfill(width)
Zfill(digits, width) ==
    IF Len(digits) >= width THEN digits ELSE Fill(width - Len(digits), 0) \o digits

\* the sifted key (lines 78-81): Alice's bits at the positions where her basis
\* and Bob's are equal, in position order
RECURSIVE Sift(_, _, _)
Sift(alice_bits, alice_bases, bob_bases) ==
    IF alice_bits = << >>
    THEN << >>
    ELSE (IF Head(alice_bases) = Head(bob_bases) THEN << Head(alice_bits) >> ELSE << >>)
         \o Sift(Tail(alice_bits), Tail(alice_bases), Tail(bob_bases))

NoQkdDraws ==
    [qiskit |-> FALSE, key_length |-> 0, alice_bits |-> << >>, alice_bases |-> << >>,
     bob_bases |-> << >>, token_hex |-> << >>]

NoQkdResult ==
    [op |-> "", raised |-> NoException, key_hex |-> << >>, alice_bases |-> << >>,
     bob_bases |-> << >>]

\* generate_bb84_key: the tuple it returns, or the exception
Bb84Result(draws) ==
    IF ~draws.qiskit
    THEN [NoQkdResult EXCEPT !.op = "generate_bb84_key", !.key_hex = draws.token_hex]
    ELSE LET sifted_key == Sift(draws.alice_bits, draws.alice_bases, draws.bob_bases)
             key_string == Take(sifted_key, draws.key_length)
         IN IF key_string = << >>
            THEN [NoQkdResult EXCEPT
                     !.op = "generate_bb84_key",
                     !.raised = ValueError("invalid literal for int() with base 2: ''")]
            ELSE [NoQkdResult EXCEPT
                     !.op = "generate_bb84_key",
                     !.key_hex = Zfill(HexDigits(BitsToInt(key_string)),
                                       draws.key_length \div 4),
                     !.alice_bases = draws.alice_bases,
                     !.bob_bases = draws.bob_bases]

GenerateBb84Key ==
    /\ qkd_result.op = ""
    /\ qkd_result' = Bb84Result(qkd_draws)
    /\ UNCHANGED << qkd_draws, nonQkdVars >>

\* the runs of generate_bb84_key: with Qiskit a key of SiftedKeyLength bits from
\* any bits of Alice and any bases of Bob, Alice's bases alternating (which
\* bases are equal is then any pattern); without it a key of 8 or 256 bits and
\* what secrets.token_hex returns
SiftedKeyLength == 4
Bits(n) == [1..n -> {0, 1}]
QkdDraws ==
    {[qiskit |-> TRUE, key_length |-> SiftedKeyLength, alice_bits |-> bits,
      alice_bases |-> [i \in 1..(2 * SiftedKeyLength) |-> i % 2], bob_bases |-> bases,
      token_hex |-> << >>] :
        bits \in Bits(2 * SiftedKeyLength), bases \in Bits(2 * SiftedKeyLength)}
    \cup {[NoQkdDraws EXCEPT !.key_length = n, !.token_hex = Fill(2 * (n \div 8), d)] :
            n \in {8, 256}, d \in {0, 15}}

NextQkd == GenerateBb84Key

(***************************************************************************)
(* services/video_service.py: gesture recognition                          *)
(***************************************************************************)

\* A hand is the 21 landmarks of MediaPipe, numbered 0..20, each [x, y, z]:
\* landmarks[i][1] of the source, the y coordinate, is landmarks[i][2] here.
\* The image's y axis points down, so a smaller y is higher in the frame.
\* Scores are in tenths: 8 is the source's 0.8 and 2 its 0.2.
NoLandmarks == << >>

NoGesture == [name |-> "", confidence |-> 0, all_scores |-> << >>]

IsThumbsUp(landmarks) ==
    LET thumb_up == landmarks[4][2] < landmarks[2][2]
        fingers_down == landmarks[8][2] > landmarks[6][2]
    IN  IF thumb_up /\ fingers_down THEN 8 ELSE 2

IsPeaceSign(landmarks) ==
    LET index_extended == landmarks[8][2] < landmarks[6][2]
        middle_extended == landmarks[12][2] < landmarks[10][2]
        ring_folded == landmarks[16][2] > landmarks[14][2]
    IN  IF index_extended /\ middle_extended /\ ring_folded THEN 8 ELSE 2

IsFist(landmarks) ==
    LET fingers_folded ==
            \A tip \in {8, 12, 16, 20} : landmarks[tip][2] > landmarks[tip - 2][2]
    IN  IF fingers_folded THEN 8 ELSE 2

IsOpenPalm(landmarks) ==
    LET fingers_extended ==
            \A tip \in {8, 12, 16, 20} : landmarks[tip][2] < landmarks[tip - 2][2]
    IN  IF fingers_extended THEN 8 ELSE 2

IsPointing(landmarks) ==
    LET index_extended == landmarks[8][2] < landmarks[6][2]
        other_folded ==
            \A tip \in {12, 16, 20} : landmarks[tip][2] > landmarks[tip - 2][2]
    IN  IF index_extended /\ other_folded THEN 8 ELSE 2

\* the keys of the gestures dict, in the order they are inserted
GestureOrder == << "thumbs_up", "peace", "fist", "open_palm", "pointing" >>

GestureScores(landmarks) ==
    [thumbs_up |-> IsThumbsUp(landmarks),
     peace     |-> IsPeaceSign(landmarks),
     fist      |-> IsFist(landmarks),
     open_palm |-> IsOpenPalm(landmarks),
     pointing  |-> IsPointing(landmarks)]

\* a max that keeps the last of several items with the highest score
LastBestGesture(gestures) ==
    LET i == CHOOSE i \in 1..Len(GestureOrder) :
                 /\ \A j \in 1..Len(GestureOrder) :
                        gestures[GestureOrder[j]] <= gestures[GestureOrder[i]]
                 /\ \A j \in (i + 1)..Len(GestureOrder) :
                        gestures[GestureOrder[j]] < gestures[GestureOrder[i]]
    IN  << GestureOrder[i], gestures[GestureOrder[i]] >>

\* max(gestures.items(), key=lambda x: x[1]): Python's max returns the first
\* of several items with the highest key, in the dict's insertion order
BestGesture(gestures) ==
    LET i == CHOOSE i \in 1..Len(GestureOrder) :
                 /\ \A j \in 1..Len(GestureOrder) :
                        gestures[GestureOrder[j]] <= gestures[GestureOrder[i]]
                 /\ \A j \in 1..(i - 1) :
                        gestures[GestureOrder[j]] < gestures[GestureOrder[i]]
    IN  << GestureOrder[i], gestures[GestureOrder[i]] >>

\* _classify_gesture(landmarks); the threshold 5 is the source's 0.5
ClassifyGesture(landmarks) ==
    LET gestures == GestureScores(landmarks)
        best_gesture == BestGesture(gestures)
    IN  [name       |-> IF best_gesture[2] > 5 THEN best_gesture[1] ELSE "unknown",
         confidence |-> best_gesture[2],
         all_scores |-> gestures]

\* recognize_gestures classifies one detected hand
ClassifyHand ==
    /\ gesture = NoGesture
    /\ gesture' = ClassifyGesture(hand_landmarks)
    /\ UNCHANGED << hand_landmarks, video_data, background_result, nonVideoVars >>

\* The heuristics read the y coordinate of the thumb's tip and joint (4, 2)
\* and of each finger's tip and joint (8, 6), (12, 10), (16, 14), (20, 18):
\* two heights for each of the ten give every order of every pair.
ReadLandmarks == {2, 4, 6, 8, 10, 12, 14, 16, 18, 20}

Heights == {1, 2}

Hands ==
    {[i \in 0..20 |-> << 0, IF i \in ReadLandmarks THEN ys[i] ELSE 0, 0 >>] :
        ys \in [ReadLandmarks -> Heights]}

NextGesture == ClassifyHand

(***************************************************************************)
(* services/video_service.py: background removal                          *)
(***************************************************************************)

\* A request is a dict: a function from the keys it carries to their values.
\* None is JSON's null.
None == "<None>"

NoVideoData == << >>

NoBackgroundResult ==
    [mask |-> "", background_type |-> "", mask_quality |-> "", raised |-> NoException]

\* dict.get(key, default)
Get(d, key, default) == IF key \in DOMAIN d THEN d[key] ELSE default

\* 'high' if video_data.get('method') == 'ai' else 'standard'
MaskQuality(method) == IF method = "ai" THEN "high" ELSE "standard"

\* base64.b64decode or Image.open refuses the frame (binascii.Error and
\* UnidentifiedImageError are ValueErrors); a segmentation model fails
FrameFailure == ValueError("cannot identify image file")
MaskFailure == [cls |-> "RuntimeError", arg |-> "model failed"]

\* remove_background(video_data).  frame_ok: the frame is base64 of an image;
\* mask_ok: the segmentation helper returns.  Every exception is logged and
\* raised again.  mask records which helper was called for the mask.
RemoveBackground(frame_ok, mask_ok) ==
    /\ video_data # NoVideoData
    /\ background_result = NoBackgroundResult
    /\ IF "frame" \notin DOMAIN video_data
       THEN background_result' =
               [NoBackgroundResult EXCEPT !.raised = KeyError("frame")]
       ELSE IF ~frame_ok
       THEN background_result' =
               [NoBackgroundResult EXCEPT !.raised = FrameFailure]
       ELSE LET mask == IF Get(video_data, "method", "fast") = "fast"
                        THEN "_mediapipe_background_removal"
                        ELSE "_ai_background_removal"
                background_type == Get(video_data, "background_type", "blur")
            IN  IF ~mask_ok
                THEN background_result' =
                        [NoBackgroundResult EXCEPT
                            !.mask = mask, !.raised = MaskFailure]
                ELSE background_result' =
                        [mask            |-> mask,
                         background_type |-> background_type,
                         mask_quality    |-> MaskQuality(Get(video_data, "method", None)),
                         raised          |-> NoException]
    /\ UNCHANGED << hand_landmarks, gesture, video_data, nonVideoVars >>

\* the requests: with or without a frame, with no 'method', with null, with
\* the two methods the service names and with others; and the backgrounds
Methods == {None, "fast", "ai", "hq", "FAST", ""}

BackgroundTypes == {"blur", "solid", "image", "none"}

VideoRequests ==
    {d \in UNION {[keys -> Methods \cup BackgroundTypes \cup {"frame"}] :
                     keys \in SUBSET {"frame", "method", "background_type"}} :
        /\ d # NoVideoData
        /\ "frame" \in DOMAIN d => d["frame"] = "frame"
        /\ "method" \in DOMAIN d => d["method"] \in Methods
        /\ "background_type" \in DOMAIN d => d["background_type"] \in BackgroundTypes}

NextBackground ==
    \E frame_ok, mask_ok \in BOOLEAN : RemoveBackground(frame_ok, mask_ok)

Outcomes == {NoException} \cup Exceptions

Next ==
    \/ \E ok \in BOOLEAN : Startup(ok)
    \/ BeginShutdown
    \/ \E ok \in BOOLEAN : Shutdown(ok)
    \/ \E r \in 1..MaxRequests, path \in Paths : Arrive(r, path)
    \/ \E r \in 1..MaxRequests, outcome \in Outcomes : GetCurrentUser(r, outcome)
    \/ \E r \in 1..MaxRequests, outcome \in Outcomes : Handle(r, outcome)
    \/ \E r \in 1..MaxRequests, failing \in 0..Len(HealthOrder), outcome \in Outcomes :
           Health(r, failing, outcome)

\* the state after the module is imported: nothing has run
Init ==
    /\ lifespan_pc = "db_init"
    /\ db_state = "new"
    /\ redis_state = "new"
    /\ services = EmptyRegistry
    /\ models_ready = {}
    /\ requests = [r \in 1..MaxRequests |-> NewRequest]
    /\ service_calls = {}
    /\ auth_calls = 0
    /\ ws_rooms = [room \in Rooms |-> {}]
    /\ sockets = [s \in Sockets |-> NewSocket]
    /\ ws_received = [s \in Sockets |-> << >>]
    /\ broadcast_log = << >>
    /\ web3_available = FALSE
    /\ identity_registry = << >>
    /\ accounts = << >>
    /\ contract_addresses = {}
    /\ contract_storage = EmptyStorage
    /\ reputation_scores = << >>
    /\ now = 0
    /\ chain_ops = 0
    /\ issued = {}
    /\ chain_result = NoChainResult
    /\ key_cache = << >>
    /\ active_channels = << >>
    /\ clock_hours = 0
    /\ quantum_ops = 0
    /\ client_message = << >>
    /\ urandom_iv = Fill(BlockSize, 0)
    /\ lattice_noise = Fill(LatticeDimension, 0)
    /\ held = NoHeld
    /\ quantum_log = << >>
    /\ quantum_result = NoQuantumResult
    /\ qkd_draws = NoQkdDraws
    /\ qkd_result = NoQkdResult
    /\ hand_landmarks = NoLandmarks
    /\ gesture = NoGesture
    /\ video_data = NoVideoData
    /\ background_result = NoBackgroundResult

Spec == Init /\ [][Next]_vars

\* the WebSocket endpoint alone, from the state startup leaves
InitWs ==
    /\ lifespan_pc = "yield"
    /\ db_state = "open"
    /\ redis_state = "open"
    /\ services = [n \in Names(ServiceOrder) |-> ServiceClass(n)]
    /\ models_ready = Names(ModelOrder)
    /\ requests = [r \in 1..MaxRequests |-> NewRequest]
    /\ service_calls = {}
    /\ auth_calls = 0
    /\ ws_rooms = [room \in Rooms |-> {}]
    /\ sockets = [s \in Sockets |-> NewSocket]
    /\ ws_received = [s \in Sockets |-> << >>]
    /\ broadcast_log = << >>
    /\ web3_available = FALSE
    /\ identity_registry = << >>
    /\ accounts = << >>
    /\ contract_addresses = {}
    /\ contract_storage = EmptyStorage
    /\ reputation_scores = << >>
    /\ now = 0
    /\ chain_ops = 0
    /\ issued = {}
    /\ chain_result = NoChainResult
    /\ key_cache = << >>
    /\ active_channels = << >>
    /\ clock_hours = 0
    /\ quantum_ops = 0
    /\ client_message = << >>
    /\ urandom_iv = Fill(BlockSize, 0)
    /\ lattice_noise = Fill(LatticeDimension, 0)
    /\ held = NoHeld
    /\ quantum_log = << >>
    /\ quantum_result = NoQuantumResult
    /\ qkd_draws = NoQkdDraws
    /\ qkd_result = NoQkdResult
    /\ hand_landmarks = NoLandmarks
    /\ gesture = NoGesture
    /\ video_data = NoVideoData
    /\ background_result = NoBackgroundResult

ServiceFailure == [cls |-> "RuntimeError", arg |-> "service failed"]
SendFailure == [cls |-> "RuntimeError", arg |-> "send failed"]

NextWs ==
    \/ \E s \in Sockets, room \in Rooms : WsConnect(s, room)
    \/ \E s \in Sockets, text \in Texts : WsReceive(s, text)
    \/ \E s \in Sockets : WsDisconnected(s)
    \/ \E s \in Sockets, failure \in {NoException, ServiceFailure} :
           WsServiceDone(s, failure)
    \/ \E s \in Sockets, failure \in {NoException, SendFailure} :
           WsBroadcast(s, failure)

SpecWs == InitWs /\ [][NextWs]_vars

\* the blockchain service alone, the application serving: WEB3_AVAILABLE is
\* either value, nothing is registered yet
InitChain ==
    /\ lifespan_pc = "yield"
    /\ db_state = "open"
    /\ redis_state = "open"
    /\ services = [n \in Names(ServiceOrder) |-> ServiceClass(n)]
    /\ models_ready = Names(ModelOrder)
    /\ requests = [r \in 1..MaxRequests |-> NewRequest]
    /\ service_calls = {}
    /\ auth_calls = 0
    /\ ws_rooms = [room \in Rooms |-> {}]
    /\ sockets = [s \in Sockets |-> NewSocket]
    /\ ws_received = [s \in Sockets |-> << >>]
    /\ broadcast_log = << >>
    /\ web3_available \in BOOLEAN
    /\ identity_registry = << >>
    /\ accounts = << >>
    /\ contract_addresses = {}
    /\ contract_storage = EmptyStorage
    /\ reputation_scores = << >>
    /\ now = 0
    /\ chain_ops = 0
    /\ issued = {}
    /\ chain_result = NoChainResult
    /\ key_cache = << >>
    /\ active_channels = << >>
    /\ clock_hours = 0
    /\ quantum_ops = 0
    /\ client_message = << >>
    /\ urandom_iv = Fill(BlockSize, 0)
    /\ lattice_noise = Fill(LatticeDimension, 0)
    /\ held = NoHeld
    /\ quantum_log = << >>
    /\ quantum_result = NoQuantumResult
    /\ qkd_draws = NoQkdDraws
    /\ qkd_result = NoQkdResult
    /\ hand_landmarks = NoLandmarks
    /\ gesture = NoGesture
    /\ video_data = NoVideoData
    /\ background_result = NoBackgroundResult

SpecChain == InitChain /\ [][NextChain]_vars

\* the reputation a first identity has when the run starts: what a number of
\* meetings and feedbacks, on either side of the caps of the score, have left
StartMeetings == {0, 14}
StartFeedback == {0, 10}

NextRep ==
    \/ CreateIdentity
    \/ \E d \in DidInputs : GetReputation(d)
    \/ \E d \in DidInputs : \E e \in EventTypes : ServiceUpdateReputation(d, e)
    \/ GetIdentityAnalytics

\* the reputation system: one identity is registered and has a history
InitRep ==
    /\ lifespan_pc = "yield"
    /\ db_state = "open"
    /\ redis_state = "open"
    /\ services = [n \in Names(ServiceOrder) |-> ServiceClass(n)]
    /\ models_ready = Names(ModelOrder)
    /\ requests = [r \in 1..MaxRequests |-> NewRequest]
    /\ service_calls = {}
    /\ auth_calls = 0
    /\ ws_rooms = [room \in Rooms |-> {}]
    /\ sockets = [s \in Sockets |-> NewSocket]
    /\ ws_received = [s \in Sockets |-> << >>]
    /\ broadcast_log = << >>
    /\ web3_available \in BOOLEAN
    /\ identity_registry = Put(<< >>, Did(Address(1)), IdentityInfo(1))
    /\ accounts = IF web3_available THEN << >> ELSE Put(<< >>, Address(1), Account(1))
    /\ contract_addresses = IF web3_available THEN {} ELSE {"identity"}
    /\ contract_storage =
          IF web3_available
          THEN EmptyStorage
          ELSE [EmptyStorage EXCEPT !.identities = {IdentityRecord(1)}]
    /\ \E m \in StartMeetings : \E p, n \in StartFeedback :
          reputation_scores =
              Put(<< >>, IdentityInfo(1).identity_id,
                  [FreshReputation EXCEPT !.meeting_count = m,
                                          !.positive_feedback = p,
                                          !.negative_feedback = n])
    /\ now = 0
    /\ chain_ops = 0
    /\ issued = {}
    /\ chain_result = NoChainResult
    /\ key_cache = << >>
    /\ active_channels = << >>
    /\ clock_hours = 0
    /\ quantum_ops = 0
    /\ client_message = << >>
    /\ urandom_iv = Fill(BlockSize, 0)
    /\ lattice_noise = Fill(LatticeDimension, 0)
    /\ held = NoHeld
    /\ quantum_log = << >>
    /\ quantum_result = NoQuantumResult
    /\ qkd_draws = NoQkdDraws
    /\ qkd_result = NoQkdResult
    /\ hand_landmarks = NoLandmarks
    /\ gesture = NoGesture
    /\ video_data = NoVideoData
    /\ background_result = NoBackgroundResult

SpecRep == InitRep /\ [][NextRep]_vars

\* the quantum service alone, the application serving; the message of the run
\* and the IV are any of those above
InitQuantum ==
    /\ lifespan_pc = "yield"
    /\ db_state = "open"
    /\ redis_state = "open"
    /\ services = [n \in Names(ServiceOrder) |-> ServiceClass(n)]
    /\ models_ready = Names(ModelOrder)
    /\ requests = [r \in 1..MaxRequests |-> NewRequest]
    /\ service_calls = {}
    /\ auth_calls = 0
    /\ ws_rooms = [room \in Rooms |-> {}]
    /\ sockets = [s \in Sockets |-> NewSocket]
    /\ ws_received = [s \in Sockets |-> << >>]
    /\ broadcast_log = << >>
    /\ web3_available = FALSE
    /\ identity_registry = << >>
    /\ accounts = << >>
    /\ contract_addresses = {}
    /\ contract_storage = EmptyStorage
    /\ reputation_scores = << >>
    /\ now = 0
    /\ chain_ops = 0
    /\ issued = {}
    /\ chain_result = NoChainResult
    /\ key_cache = << >>
    /\ active_channels = << >>
    /\ clock_hours = 0
    /\ quantum_ops = 0
    /\ client_message \in Messages
    /\ urandom_iv \in Ivs
    /\ lattice_noise = Fill(LatticeDimension, 0)
    /\ held = NoHeld
    /\ quantum_log = << >>
    /\ quantum_result = NoQuantumResult
    /\ qkd_draws = NoQkdDraws
    /\ qkd_result = NoQkdResult
    /\ hand_landmarks = NoLandmarks
    /\ gesture = NoGesture
    /\ video_data = NoVideoData
    /\ background_result = NoBackgroundResult

SpecQuantum == InitQuantum /\ [][NextQuantum]_vars

\* the quantum service with channels of the lattice cipher: the message of the
\* run and the noise of lattice_encrypt are any of those above
InitLattice ==
    /\ lifespan_pc = "yield"
    /\ db_state = "open"
    /\ redis_state = "open"
    /\ services = [n \in Names(ServiceOrder) |-> ServiceClass(n)]
    /\ models_ready = Names(ModelOrder)
    /\ requests = [r \in 1..MaxRequests |-> NewRequest]
    /\ service_calls = {}
    /\ auth_calls = 0
    /\ ws_rooms = [room \in Rooms |-> {}]
    /\ sockets = [s \in Sockets |-> NewSocket]
    /\ ws_received = [s \in Sockets |-> << >>]
    /\ broadcast_log = << >>
    /\ web3_available = FALSE
    /\ identity_registry = << >>
    /\ accounts = << >>
    /\ contract_addresses = {}
    /\ contract_storage = EmptyStorage
    /\ reputation_scores = << >>
    /\ now = 0
    /\ chain_ops = 0
    /\ issued = {}
    /\ chain_result = NoChainResult
    /\ key_cache = << >>
    /\ active_channels = << >>
    /\ clock_hours = 0
    /\ quantum_ops = 0
    /\ client_message \in LatticeMessages
    /\ urandom_iv = Fill(BlockSize, 200)
    /\ lattice_noise \in NoiseDraws
    /\ held = NoHeld
    /\ quantum_log = << >>
    /\ quantum_result = NoQuantumResult
    /\ qkd_draws = NoQkdDraws
    /\ qkd_result = NoQkdResult
    /\ hand_landmarks = NoLandmarks
    /\ gesture = NoGesture
    /\ video_data = NoVideoData
    /\ background_result = NoBackgroundResult

SpecLattice == InitLattice /\ [][NextLattice]_vars

\* the quantum service and the bookkeeping of its channels
InitChannels ==
    /\ lifespan_pc = "yield"
    /\ db_state = "open"
    /\ redis_state = "open"
    /\ services = [n \in Names(ServiceOrder) |-> ServiceClass(n)]
    /\ models_ready = Names(ModelOrder)
    /\ requests = [r \in 1..MaxRequests |-> NewRequest]
    /\ service_calls = {}
    /\ auth_calls = 0
    /\ ws_rooms = [room \in Rooms |-> {}]
    /\ sockets = [s \in Sockets |-> NewSocket]
    /\ ws_received = [s \in Sockets |-> << >>]
    /\ broadcast_log = << >>
    /\ web3_available = FALSE
    /\ identity_registry = << >>
    /\ accounts = << >>
    /\ contract_addresses = {}
    /\ contract_storage = EmptyStorage
    /\ reputation_scores = << >>
    /\ now = 0
    /\ chain_ops = 0
    /\ issued = {}
    /\ chain_result = NoChainResult
    /\ key_cache = << >>
    /\ active_channels = << >>
    /\ clock_hours = 0
    /\ quantum_ops = 0
    /\ client_message \in ChannelMessages
    /\ urandom_iv = Fill(BlockSize, 200)
    /\ lattice_noise = Fill(LatticeDimension, 0)
    /\ held = NoHeld
    /\ quantum_log = << >>
    /\ quantum_result = NoQuantumResult
    /\ qkd_draws = NoQkdDraws
    /\ qkd_result = NoQkdResult
    /\ hand_landmarks = NoLandmarks
    /\ gesture = NoGesture
    /\ video_data = NoVideoData
    /\ background_result = NoBackgroundResult

SpecChannels == InitChannels /\ [][NextChannels]_vars

\* generate_bb84_key alone, on any of the draws above
InitQkd ==
    /\ lifespan_pc = "yield"
    /\ db_state = "open"
    /\ redis_state = "open"
    /\ services = [n \in Names(ServiceOrder) |-> ServiceClass(n)]
    /\ models_ready = Names(ModelOrder)
    /\ requests = [r \in 1..MaxRequests |-> NewRequest]
    /\ service_calls = {}
    /\ auth_calls = 0
    /\ ws_rooms = [room \in Rooms |-> {}]
    /\ sockets = [s \in Sockets |-> NewSocket]
    /\ ws_received = [s \in Sockets |-> << >>]
    /\ broadcast_log = << >>
    /\ web3_available = FALSE
    /\ identity_registry = << >>
    /\ accounts = << >>
    /\ contract_addresses = {}
    /\ contract_storage = EmptyStorage
    /\ reputation_scores = << >>
    /\ now = 0
    /\ chain_ops = 0
    /\ issued = {}
    /\ chain_result = NoChainResult
    /\ key_cache = << >>
    /\ active_channels = << >>
    /\ clock_hours = 0
    /\ quantum_ops = 0
    /\ client_message = << >>
    /\ urandom_iv = Fill(BlockSize, 200)
    /\ lattice_noise = Fill(LatticeDimension, 0)
    /\ held = NoHeld
    /\ quantum_log = << >>
    /\ quantum_result = NoQuantumResult
    /\ qkd_draws \in QkdDraws
    /\ qkd_result = NoQkdResult
    /\ hand_landmarks = NoLandmarks
    /\ gesture = NoGesture
    /\ video_data = NoVideoData
    /\ background_result = NoBackgroundResult

SpecQkd == InitQkd /\ [][NextQkd]_vars

\* _classify_gesture alone, on any of the hands above
InitGesture ==
    /\ lifespan_pc = "yield"
    /\ db_state = "open"
    /\ redis_state = "open"
    /\ services = [n \in Names(ServiceOrder) |-> ServiceClass(n)]
    /\ models_ready = Names(ModelOrder)
    /\ requests = [r \in 1..MaxRequests |-> NewRequest]
    /\ service_calls = {}
    /\ auth_calls = 0
    /\ ws_rooms = [room \in Rooms |-> {}]
    /\ sockets = [s \in Sockets |-> NewSocket]
    /\ ws_received = [s \in Sockets |-> << >>]
    /\ broadcast_log = << >>
    /\ web3_available = FALSE
    /\ identity_registry = << >>
    /\ accounts = << >>
    /\ contract_addresses = {}
    /\ contract_storage = EmptyStorage
    /\ reputation_scores = << >>
    /\ now = 0
    /\ chain_ops = 0
    /\ issued = {}
    /\ chain_result = NoChainResult
    /\ key_cache = << >>
    /\ active_channels = << >>
    /\ clock_hours = 0
    /\ quantum_ops = 0
    /\ client_message = << >>
    /\ urandom_iv = Fill(BlockSize, 200)
    /\ lattice_noise = Fill(LatticeDimension, 0)
    /\ held = NoHeld
    /\ quantum_log = << >>
    /\ quantum_result = NoQuantumResult
    /\ qkd_draws = NoQkdDraws
    /\ qkd_result = NoQkdResult
    /\ hand_landmarks \in Hands
    /\ gesture = NoGesture
    /\ video_data = NoVideoData
    /\ background_result = NoBackgroundResult

SpecGesture == InitGesture /\ [][NextGesture]_vars

\* remove_background alone, on any of the requests above
InitBackground ==
    /\ lifespan_pc = "yield"
    /\ db_state = "open"
    /\ redis_state = "open"
    /\ services = [n \in Names(ServiceOrder) |-> ServiceClass(n)]
    /\ models_ready = Names(ModelOrder)
    /\ requests = [r \in 1..MaxRequests |-> NewRequest]
    /\ service_calls = {}
    /\ auth_calls = 0
    /\ ws_rooms = [room \in Rooms |-> {}]
    /\ sockets = [s \in Sockets |-> NewSocket]
    /\ ws_received = [s \in Sockets |-> << >>]
    /\ broadcast_log = << >>
    /\ web3_available = FALSE
    /\ identity_registry = << >>
    /\ accounts = << >>
    /\ contract_addresses = {}
    /\ contract_storage = EmptyStorage
    /\ reputation_scores = << >>
    /\ now = 0
    /\ chain_ops = 0
    /\ issued = {}
    /\ chain_result = NoChainResult
    /\ key_cache = << >>
    /\ active_channels = << >>
    /\ clock_hours = 0
    /\ quantum_ops = 0
    /\ client_message = << >>
    /\ urandom_iv = Fill(BlockSize, 200)
    /\ lattice_noise = Fill(LatticeDimension, 0)
    /\ held = NoHeld
    /\ quantum_log = << >>
    /\ quantum_result = NoQuantumResult
    /\ qkd_draws = NoQkdDraws
    /\ qkd_result = NoQkdResult
    /\ hand_landmarks = NoLandmarks
    /\ gesture = NoGesture
    /\ video_data \in VideoRequests
    /\ background_result = NoBackgroundResult

SpecBackground == InitBackground /\ [][NextBackground]_vars

(***************************************************************************)
(* Properties                                                              *)
(***************************************************************************)

Done(r) == requests[r].pc = "done"

ServiceRaised(r) == Done(r) /\ requests[r].raised # NoException

CallsOf(r) == {c \in service_calls : c.req = r}

\* C1, as stated: whenever the service call of any endpoint raises, the
\* response is an HTTP error whose detail is the exception's message
C1_EveryEndpointConverts ==
    \A r \in 1..MaxRequests :
        ServiceRaised(r) =>
            /\ requests[r].response.kind = "http_error"
            /\ requests[r].response.detail = Str(requests[r].raised)

\* C1, amended: whenever the service call of an endpoint under /api raises e,
\* the response is the HTTP error 401 (login), 400 (register) or 500 (the
\* others) with detail str(e); an exception of a health_check() leaves the
\* /health handler unconverted
C1_ApiEndpointsConvert ==
    \A r \in 1..MaxRequests :
        ServiceRaised(r) =>
            IF requests[r].path = "/health"
            THEN requests[r].response.kind = "unhandled"
            ELSE /\ requests[r].response.kind = "http_error"
                 /\ requests[r].response.detail = Str(requests[r].raised)
                 /\ requests[r].response.status =
                        CASE requests[r].path = "/api/auth/login" -> 401
                          [] requests[r].path = "/api/auth/register" -> 400
                          [] OTHER -> 500

C1_Witness ==
    \E r \in 1..MaxRequests :
        /\ ServiceRaised(r)
        /\ requests[r].path = "/api/auth/register"
        /\ requests[r].response = HTTPException(400, "'channel_id'")

\* the REST endpoints under /api other than login and register
GuardedPaths == Paths \ {"/api/auth/login", "/api/auth/register", "/health"}

\* C2: on a guarded endpoint a service operation is invoked only for a request
\* whose token validate_token accepted; a request whose token validate_token
\* rejected is answered 401 'Invalid authentication credentials' and invokes
\* no service operation
C2_ServiceOnlyAfterAuth ==
    \A r \in 1..MaxRequests :
        requests[r].path \in GuardedPaths =>
            /\ CallsOf(r) # {} => requests[r].authenticated
            /\ requests[r].pc = "handler" => requests[r].authenticated
            /\ requests[r].auth_error # NoException =>
                   /\ Done(r)
                   /\ requests[r].response =
                          [kind |-> "http_error", status |-> 401,
                           detail |-> "Invalid authentication credentials"]
                   /\ CallsOf(r) = {}

C2_Witness ==
    \E r \in 1..MaxRequests :
        /\ requests[r].path = "/api/blockchain/verify-credential"
        /\ requests[r].auth_error # NoException
        /\ requests[r].response.status = 401
        /\ Done(r)

(***************************************************************************)
(* C3: the WebSocket endpoint (SpecWs)                                     *)
(***************************************************************************)

\* the broadcast_to_room() calls made for the n-th text received on s
EntriesOf(s, n) ==
    {i \in 1..Len(broadcast_log) :
        broadcast_log[i].from = s /\ broadcast_log[i].seq = n}

\* the handler of s is no longer working on its n-th text
Handled(s, n) ==
    n < Len(ws_received[s]) \/ sockets[s].pc \in {"receive", "stopped"}

\* the handling of the n-th text of s ran to its end without an exception
Completed(s, n) ==
    \/ n < Len(ws_received[s])
    \/ sockets[s].pc = "receive"
    \/ sockets[s].pc = "stopped" /\ sockets[s].exit = WebSocketDisconnect

\* the type of the broadcast the claim pairs with a received type, and the
\* service operation whose result it carries
ClaimedReply(type) ==
    CASE type = "video_frame"   -> [type |-> "processed_video", op |-> "process_frame"]
      [] type = "audio_chunk"   -> [type |-> "transcription", op |-> "transcribe_chunk"]
      [] type = "neural_signal" -> [type |-> "neural_command", op |-> "process_signal"]

\* log entry e is the broadcast the claim describes for text, received on s
ClaimedBroadcast(e, s, text) ==
    LET m == json_loads(text) IN
    /\ e.room = sockets[s].room
    /\ s \in e.recipients
    /\ \A t \in e.recipients : sockets[t].room = sockets[s].room
    /\ IF GetType(m) \in {"video_frame", "audio_chunk", "neural_signal"}
       THEN /\ DOMAIN e.message.members = {"type", "data"}
            /\ e.message.members.type = ClaimedReply(GetType(m)).type
            /\ e.message.members.data \in
                   {ServiceResult(ClaimedReply(GetType(m)).op, m.members.data)}
                   \cup (IF GetType(m) = "audio_chunk" THEN {EmptyTranscription} ELSE {})
       ELSE e.message = m

C4_RegistryFixedAfterStartup ==
    LET started == lifespan_pc \in
            {"yield", "db_close", "redis_close", "done", "shutdown_failed"}
    IN
    /\ (\E r \in 1..MaxRequests : requests[r].pc # "new") => started
    /\ started =>
           /\ DOMAIN services = {"ai", "video", "quantum", "blockchain", "neural",
                                 "metaverse", "analytics", "auth"}
           /\ \A n \in DOMAIN services : services[n] = ServiceClass(n)
           /\ models_ready = {"ai", "video", "neural"}

C4_Witness ==
    /\ lifespan_pc = "done"
    /\ \E r \in 1..MaxRequests :
           Done(r) /\ requests[r].response.kind = "result"

(***************************************************************************)
(* The blockchain service: keys, reputation, credentials                   *)
(***************************************************************************)

PrivateKinds == {"rsa_private", "blockchain_private"}

\* the key material a result carries
ResultKeys(result) ==
    {result.did_document.publicKeyPem}
    \cup {result.verification_keys[n] : n \in DOMAIN result.verification_keys}

\* the key material kept outside identity_registry
AccountKeys == {accounts[a].private_key : a \in DOMAIN accounts}
StorageKeys == {r.did_document.publicKeyPem : r \in contract_storage.identities}

ResultsCarryNoPrivateKey ==
    /\ chain_result.raised # NoException =>
          chain_result = ChainRaised(chain_result.op, chain_result.raised)
    /\ \A k \in ResultKeys(chain_result) : k.kind \notin PrivateKinds

\* C5, as stated: no result of a public BlockchainService operation contains an
\* RSA private key or a blockchain private key, and identity_registry is the
\* only place that holds either of them.
C5_KeysOnlyInRegistry ==
    /\ ResultsCarryNoPrivateKey
    /\ \A k \in AccountKeys \cup StorageKeys : k.kind \notin PrivateKinds

\* C5, amended: no result of a public BlockchainService operation contains an
\* RSA private key or a blockchain private key; the RSA private key is held in
\* identity_registry only; the blockchain private key is held in
\* identity_registry and, when the mock blockchain is in use, also in the
\* account table of the mock blockchain, under the identity's address.
C5_NoPrivateKeyInResult ==
    /\ ResultsCarryNoPrivateKey
    /\ \A k \in AccountKeys \cup StorageKeys : k.kind # "rsa_private"
    /\ \A k \in StorageKeys : k.kind \notin PrivateKinds
    /\ web3_available => accounts = << >>
    /\ \A a \in DOMAIN accounts :
          /\ Did(a) \in RegisteredDids
          /\ accounts[a].private_key = identity_registry[Did(a)].blockchain_private_key

\* an identity was created on the mock blockchain and create_identity has
\* answered with its public key
C5_Witness ==
    /\ ~web3_available
    /\ chain_result.op = "create_identity"
    /\ chain_result.did \in RegisteredDids
    /\ chain_result.verification_keys =
          [n \in {"public_key"} |-> identity_registry[chain_result.did].public_key]
    /\ identity_registry[chain_result.did].private_key.kind = "rsa_private"
    /\ identity_registry[chain_result.did].blockchain_private_key
          = accounts[chain_result.blockchain_address].private_key

ClaimedScore(r) ==
    Max(0, Min(100, 50 + Min(2 * r.meeting_count, 30)
                    + 5 * (r.positive_feedback - r.negative_feedback)
                    + Min(10 * r.credentials_verified, 20)))

ReputationReported ==
    chain_result.op \in {"get_reputation", "update_reputation"}
    /\ chain_result.raised = NoException

\* C6: for every identity, after every sequence of reputation events,
\* calculate_reputation reports max(0, min(100, 50 + min(2*meeting_count, 30)
\* + 5*(positive_feedback - negative_feedback) + min(10*credentials_verified,
\* 20))), a value between 0 and 100; a newly created identity has score 50.
C6_ReputationFormula ==
    /\ ReputationReported =>
          /\ chain_result.reputation.statistics
                = reputation_scores[chain_result.reputation.identity_id]
          /\ chain_result.reputation.reputation_score
                = ClaimedScore(chain_result.reputation.statistics)
          /\ chain_result.reputation.reputation_score \in 0..100
    /\ \A d \in RegisteredDids :
          CalculateReputation(reputation_scores,
                              identity_registry[d].identity_id).reputation_score
             = ClaimedScore(reputation_scores[identity_registry[d].identity_id])
    /\ chain_result.op = "create_identity" =>
          CalculateReputation(reputation_scores,
                              chain_result.identity_id).reputation_score = 50

\* a reputation was reported whose parts add up to more than 100
C6_Witness ==
    /\ ReputationReported
    /\ chain_result.reputation.statistics.meeting_count = 16
    /\ chain_result.reputation.statistics.positive_feedback = 11
    /\ chain_result.reputation.breakdown.meeting_bonus = 30
    /\ chain_result.reputation.breakdown.feedback_score = 55
    /\ chain_result.reputation.reputation_score = 100

\* verify_credential's argument that carries credential c
Presented(c) == [has_credential |-> TRUE, is_dict |-> TRUE, credential |-> c]

\* the step is a call of verify_credential(cd)
Verifies(cd) == chain_result'.op = "verify_credential" /\ VerifyCredential(cd)

SignedByIssuer(c) ==
    /\ c.issuer \in RegisteredDids
    /\ c.has_proof
    /\ c.jws = Sign(identity_registry[c.issuer].private_key, CanonicalJson(c))

Expired(c) == c.expirationDate # 0 - 1 /\ now > c.expirationDate

\* C8: the verdict of verify_credential does not depend on the mock ledger: a
\* credential is reported valid exactly when it carries a valid signature of a
\* registered issuer and has not expired, stored or not, and then
\* blockchain_verified is True; no operation other than the passing of time
\* makes a credential invalid that was valid.
C8_VerdictIgnoresLedger ==
    [][/\ \A cd \in CredentialInputs :
             Verifies(cd) =>
                /\ chain_result'.valid
                      <=> (cd.has_credential /\ cd.is_dict
                           /\ SignedByIssuer(cd.credential)
                           /\ ~Expired(cd.credential))
                /\ chain_result'.valid => chain_result'.blockchain_verified
       /\ \A c \in issued :
             (now' = now /\ VerifyResult(Presented(c)).valid) =>
                VerifyResult(Presented(c))'.valid]_vars

\* a credential that is on no ledger was found valid and blockchain-verified
C8_Witness ==
    /\ chain_result.op = "verify_credential"
    /\ chain_result.valid
    /\ chain_result.blockchain_verified
    /\ chain_result.credential \in issued
    /\ chain_result.credential \notin contract_storage.credentials

VerificationErrors ==
    {"Verification error: " \o Str(e) :
        e \in {KeyError("credential"),
               AttributeError("'str' object has no attribute 'get'")}}

\* C9: verify_credential never raises; when it answers valid = False the
\* reason is that of the first failing check, in the order: no issuer, issuer
\* not registered, signature mismatch, expiry; a request without a
\* 'credential' member (or any other exception) is answered with
\* 'Verification error: ...'; a failing verification leaves the reputation
\* data as it was.
C9_FailingVerification ==
    [][\A cd \in CredentialInputs :
          Verifies(cd) =>
             /\ chain_result'.raised = NoException
             /\ ~chain_result'.valid =>
                   /\ reputation_scores' = reputation_scores
                   /\ IF ~cd.has_credential \/ ~cd.is_dict
                      THEN chain_result'.reason \in VerificationErrors
                      ELSE IF cd.credential.issuer = ""
                      THEN chain_result'.reason = "No issuer specified"
                      ELSE IF cd.credential.issuer \notin RegisteredDids
                      THEN chain_result'.reason = "Issuer not found"
                      ELSE IF ~SignedByIssuer(cd.credential)
                      THEN chain_result'.reason = "Invalid signature"
                      ELSE /\ Expired(cd.credential)
                           /\ chain_result'.reason = "Credential expired"]_vars

\* a credential altered after it expired was refused for its signature, and
\* its subject, which is registered, has the one verification its issuance
\* counted
C9_Witness ==
    /\ chain_result.op = "verify_credential"
    /\ ~chain_result.valid
    /\ chain_result.reason = "Invalid signature"
    /\ \E c \in issued :
          /\ now > c.expirationDate
          /\ c.subject \in RegisteredDids
          /\ reputation_scores[identity_registry[c.subject].identity_id]
                .credentials_verified = 1

(***************************************************************************)
(* The quantum service: AES with the channel's quantum key                 *)
(***************************************************************************)

\* the channel has the 256-bit quantum key the held result was made with
KeyOfHeld(c) ==
    /\ held.channel_id = c
    /\ c \in DOMAIN key_cache
    /\ key_cache[c].keys.key_type = "quantum"
    /\ key_cache[c].keys.key_length = 256
    /\ key_cache[c].keys.quantum_key = held.quantum_key

\* C10: on a channel of key type 'quantum' with a 256-bit key, decrypt_data
\* applied to the encrypted_data that encrypt_data returned for a message m
\* returns m, whatever m is: empty, or of a byte length that is a multiple of
\* 16, or neither.
C10_QuantumRoundTrip ==
    [][\A c \in ChannelIds :
          (/\ quantum_result'.op = "decrypt_data"
           /\ KeyOfHeld(c)
           /\ DecryptData(c, held.encrypted_data)) =>
             /\ quantum_result'.raised = NoException
             /\ quantum_result'.decrypted_message = held.message]_vars

\* a message of sixteen bytes, each of them 16 as the bytes of a full block of
\* padding are, came back from decrypt_data
C10_Witness ==
    /\ quantum_result.op = "decrypt_data"
    /\ quantum_result.raised = NoException
    /\ KeyOfHeld(quantum_result.channel_id)
    /\ held.message = Fill(16, 16)
    /\ Len(Utf8Encode(held.message)) % 16 = 0
    /\ quantum_result.decrypted_message = held.message

(***************************************************************************)
(* The quantum service: the lattice cipher                                 *)
(***************************************************************************)

\* the channel has the keys the held result was made with, of a key type that
\* uses the lattice cipher
KeysOfHeld(c) ==
    /\ held.channel_id = c
    /\ c \in DOMAIN key_cache
    /\ key_cache[c].keys = held.keys
    /\ held.keys.key_type \in LatticeKeyTypes

\* C11: on a channel of key type 'post_quantum' or 'hybrid', decrypt_data
\* applied to the encrypted_data that encrypt_data returned for a message m
\* returns m.
C11_LatticeRoundTrip ==
    [][\A c \in ChannelIds :
          (/\ quantum_result'.op = "decrypt_data"
           /\ KeysOfHeld(c)
           /\ DecryptData(c, held.encrypted_data)) =>
             /\ quantum_result'.raised = NoException
             /\ quantum_result'.decrypted_message = held.message]_vars

(***************************************************************************)
(* The quantum service: the lifetime of a channel's keys                   *)
(***************************************************************************)

\* expires_at of the channel's cached keys has passed
KeysExpired(c) == c \in DOMAIN key_cache /\ clock_hours > key_cache[c].expires_at

\* the step is a call of encrypt_data or of decrypt_data on the channel
UsesChannel(c) ==
    \/ /\ quantum_result'.op = "encrypt_data"
       /\ EncryptData(c, client_message, urandom_iv, lattice_noise)
    \/ /\ quantum_result'.op = "decrypt_data"
       /\ DecryptData(c, held.encrypted_data)

\* C12: the keys of a channel expire 24 hours after generate_keys cached them:
\* encrypt_data and decrypt_data on a channel whose expires_at has passed fail
\* with 'Channel not found or keys expired' and do not use the keys.
C12_ExpiredKeysRefused ==
    [][\A c \in ChannelIds :
          (KeysExpired(c) /\ UsesChannel(c)) =>
             quantum_result'.raised = ValueError("Channel not found or keys expired")]_vars

(***************************************************************************)
(* BB84 key generation                                                     *)
(***************************************************************************)

\* the bits of a string of hex digits, highest first
RECURSIVE HexToBits(_)
HexToBits(hex) ==
    IF hex = << >>
    THEN << >>
    ELSE << Head(hex) \div 8, (Head(hex) \div 4) % 2, (Head(hex) \div 2) % 2,
            Head(hex) % 2 >> \o HexToBits(Tail(hex))

\* C13: generate_bb84_key(key_length) returns key_length / 4 hex digits whose
\* key_length bits are Alice's bits at the first key_length positions where her
\* basis and Bob's are equal, in position order, whatever the random bits and
\* bases are.
C13_Bb84KeyFromSiftedBits ==
    (qkd_result.op = "generate_bb84_key" /\ qkd_draws.qiskit) =>
        /\ qkd_result.raised = NoException
        /\ Len(qkd_result.key_hex) * 4 = qkd_draws.key_length
        /\ Len(Sift(qkd_draws.alice_bits, qkd_draws.alice_bases, qkd_draws.bob_bases))
              >= qkd_draws.key_length
        /\ HexToBits(qkd_result.key_hex) =
              Take(Sift(qkd_draws.alice_bits, qkd_draws.alice_bases, qkd_draws.bob_bases),
                   qkd_draws.key_length)

(***************************************************************************)
(* The quantum service: the channels                                       *)
(***************************************************************************)

\* the key type of a channel: as generate_keys recorded it, or as
\* establish_secure_channel recorded it in the channel's info
ChannelKeyType(channel) ==
    IF "key_type" \in DOMAIN channel THEN channel.key_type ELSE channel.info.security_level

\* get_channel_status ran on channel c and nothing ran after it
StatusAsked(c) ==
    /\ quantum_result'.op = "get_channel_status"
    /\ GetChannelStatus(c)

\* C14: for every id in active_channels, whether generate_keys or
\* establish_secure_channel made the channel, get_channel_status returns status
\* 'active' with the channel's key type, message count, number of participants
\* and key expiry; it returns 'not_found' only for ids that are not in
\* active_channels; it never raises.
C14_StatusOfEveryChannel ==
    [][\A c \in ChannelIds :
          StatusAsked(c) =>
             /\ quantum_result'.raised = NoException
             /\ c \notin DOMAIN active_channels <=> quantum_result'.status = "not_found"
             /\ c \in DOMAIN active_channels =>
                   /\ quantum_result'.status = "active"
                   /\ quantum_result'.key_type = ChannelKeyType(active_channels[c])
                   /\ quantum_result'.message_count = active_channels[c].message_count
                   /\ quantum_result'.participants = Len(active_channels[c].participants)
                   /\ c \in DOMAIN key_cache
                   /\ quantum_result'.expires_at = key_cache[c].expires_at]_vars

\* C17: after any sequence of generate_keys, establish_secure_channel,
\* encrypt_data, decrypt_data and cleanup_expired_channels, in any order,
\* key_cache and active_channels hold the same channel ids.
C17_SameChannelIds == DOMAIN key_cache = DOMAIN active_channels

\* cleanup_expired_channels took away a channel that establish_secure_channel
\* had made and encrypt_data had used
C17_Witness ==
    /\ quantum_result.op = "cleanup_expired_channels"
    /\ held.channel_id \in ChannelIds
    /\ held.channel_id \notin DOMAIN key_cache
    /\ held.channel_id \notin DOMAIN active_channels
    /\ clock_hours > KeyLifetimeHours

\* the number of encrypt_data calls on channel c that returned after the last
\* call that wrote the entry of c
EncryptedSinceWritten(log, c) ==
    Cardinality({i \in 1..Len(log[c]) : log[c][i] = "encrypt_data"})

MessagesCounted ==
    \A c \in DOMAIN active_channels :
        active_channels[c].message_count = EncryptedSinceWritten(quantum_log, c)

\* the step is an encrypt_data that raised, or a decrypt_data
FailedOrDecrypt(c) ==
    \/ /\ quantum_result'.op = "encrypt_data"
       /\ quantum_result'.raised # NoException
       /\ EncryptData(c, client_message, urandom_iv, lattice_noise)
    \/ /\ quantum_result'.op = "decrypt_data"
       /\ DecryptData(c, held.encrypted_data)

\* C18: the message_count of a channel is the number of encrypt_data calls on it
\* that returned since generate_keys or establish_secure_channel last wrote its
\* entry, in whatever order the requests run; an encrypt_data that fails and
\* every decrypt_data leave the counts as they are.
C18_MessageCount ==
    [][/\ MessagesCounted'
       /\ \A c \in ChannelIds : FailedOrDecrypt(c) => active_channels' = active_channels]_vars

\* a channel counted a message (the client holds its result), was written
\* again as a lattice channel, and then refused a message that is too long for
\* the lattice: its count is 0
C18_Witness ==
    /\ quantum_result.op = "encrypt_data"
    /\ quantum_result.raised = ValueError("Message too long for lattice dimension")
    /\ \E c \in DOMAIN active_channels :
          /\ active_channels[c].message_count = 0
          /\ held.channel_id = c
          /\ Len(quantum_log[c]) = 1

(***************************************************************************)
(* The WebSocket endpoint: sockets whose handler has stopped               *)
(***************************************************************************)

\* C15: whenever the handler of a socket stops, whatever the reason (the client
\* disconnects, a text is not JSON, a typed message lacks 'data', a service or
\* the broadcast raises), the socket is removed from its room in the manager,
\* and no later broadcast to the room is sent to it.
C15_StoppedSocketRemoved ==
    [][\A s \in Sockets :
          sockets'[s].pc = "stopped" =>
             /\ s \notin ws_rooms'[sockets'[s].room]
             /\ Len(broadcast_log') > Len(broadcast_log) =>
                   s \notin broadcast_log'[Len(broadcast_log')].recipients]_vars

(***************************************************************************)
(* lifespan: the resources opened at startup                               *)
(***************************************************************************)

\* lifespan() has ended: it returned after the shutdown half, or an exception
\* of a startup step left it
LifespanEnded == lifespan_pc \in {"done", "startup_failed"}

\* C16: the database manager and Redis, once initialized at startup, are closed
\* by the time lifespan() has ended, the database first and Redis after it,
\* when the application shuts down normally and also when a later startup step
\* (Redis initialization, a service constructor, a model initialization)
\* raises.
C16_ResourcesClosed ==
    /\ LifespanEnded => db_state # "open" /\ redis_state # "open"
    /\ redis_state = "closed" => db_state = "closed"

(***************************************************************************)
(* The WebSocket endpoint: the order of the broadcasts of one socket       *)
(***************************************************************************)

\* C19: the broadcasts for the texts received from one socket are made in the
\* order the texts were received, and the handler reads text n+1 only when the
\* processing and the broadcast of text n have completed. (Broadcasts that
\* come from different sockets of a room are in no fixed order.)
C19_BroadcastsInReceiveOrder ==
    \A s \in Sockets :
        /\ \A i, j \in 1..Len(broadcast_log) :
               (i < j /\ broadcast_log[i].from = s /\ broadcast_log[j].from = s) =>
                   broadcast_log[i].seq < broadcast_log[j].seq
        /\ \A n \in 1..(Len(ws_received[s]) - 1) : Cardinality(EntriesOf(s, n)) = 1

\* one socket received two texts and both were broadcast, the first one first
C19_Witness ==
    \E s \in Sockets :
        /\ Len(ws_received[s]) = 2
        /\ Len(broadcast_log) = 2
        /\ broadcast_log[1].from = s /\ broadcast_log[1].seq = 1
        /\ broadcast_log[2].from = s /\ broadcast_log[2].seq = 2

\* two sockets of one room each had a text broadcast, the socket that connected
\* later first
C19_LaterSocketFirst ==
    /\ Len(broadcast_log) = 2
    /\ broadcast_log[1].from = 2 /\ broadcast_log[2].from = 1
    /\ broadcast_log[1].room = broadcast_log[2].room

\* the same, the socket that connected earlier first
C19_EarlierSocketFirst ==
    /\ Len(broadcast_log) = 2
    /\ broadcast_log[1].from = 1 /\ broadcast_log[2].from = 2
    /\ broadcast_log[1].room = broadcast_log[2].room

\* C20: _classify_gesture returns the name "unknown" exactly when none of the
\* five heuristics fires; otherwise it returns, with confidence 0.8, the first
\* firing gesture in the order thumbs_up, peace, fist, open_palm, pointing;
\* and all_scores holds 0.8 for each heuristic that fires and 0.2 for each
\* other one.  The heuristics' conditions are restated here on the landmarks.
Above(landmarks, tip) == landmarks[tip][2] < landmarks[tip - 2][2]

Below(landmarks, tip) == landmarks[tip][2] > landmarks[tip - 2][2]

Fires(landmarks, name) ==
    CASE name = "thumbs_up" -> Above(landmarks, 4) /\ Below(landmarks, 8)
      [] name = "peace"     ->
            Above(landmarks, 8) /\ Above(landmarks, 12) /\ Below(landmarks, 16)
      [] name = "fist"      ->
            /\ Below(landmarks, 8) /\ Below(landmarks, 12)
            /\ Below(landmarks, 16) /\ Below(landmarks, 20)
      [] name = "open_palm" ->
            /\ Above(landmarks, 8) /\ Above(landmarks, 12)
            /\ Above(landmarks, 16) /\ Above(landmarks, 20)
      [] name = "pointing"  ->
            /\ Above(landmarks, 8) /\ Below(landmarks, 12)
            /\ Below(landmarks, 16) /\ Below(landmarks, 20)

Firing(landmarks) ==
    {i \in 1..Len(GestureOrder) : Fires(landmarks, GestureOrder[i])}

C20_ClassifyGesture ==
    gesture # NoGesture =>
        LET firing == Firing(hand_landmarks)
        IN  /\ gesture.name = "unknown" <=> firing = {}
            /\ firing # {} =>
                   /\ \E i \in firing :
                          /\ \A j \in firing : i <= j
                          /\ gesture.name = GestureOrder[i]
                   /\ gesture.confidence = 8
            /\ \A i \in 1..Len(GestureOrder) :
                   gesture.all_scores[GestureOrder[i]] = IF i \in firing THEN 8 ELSE 2

\* a hand on which thumbs_up and fist both fire has been classified
C20_Witness ==
    /\ gesture # NoGesture
    /\ Cardinality(Firing(hand_landmarks)) > 1
    /\ gesture.name = "thumbs_up"

(***************************************************************************)
(* Background removal: the reported mask quality                           *)
(***************************************************************************)

BackgroundReturned ==
    /\ background_result # NoBackgroundResult
    /\ background_result.raised = NoException

\* C21: remove_background reports mask_quality "high" exactly when the mask
\* was produced by the custom AI model and "standard" exactly when it was
\* produced by the fast MediaPipe method, for every value of the request's
\* "method" field, an absent or unrecognized one included.
C21_MaskQualityNamesMaskMaker ==
    BackgroundReturned =>
        /\ background_result.mask_quality = "high"
              <=> background_result.mask = "_ai_background_removal"
        /\ background_result.mask_quality = "standard"
              <=> background_result.mask = "_mediapipe_background_removal"

\* what does hold: the quality is "high" exactly for the method "ai", and
\* the custom model makes the mask for every method but "fast" and absent
C21_QualityFollowsMethodName ==
    BackgroundReturned =>
        /\ background_result.mask_quality = "high"
              <=> Get(video_data, "method", None) = "ai"
        /\ background_result.mask = "_mediapipe_background_removal"
              <=> Get(video_data, "method", "fast") = "fast"
        /\ background_result.mask_quality = "high"
              => background_result.mask = "_ai_background_removal"

\* the custom model made the mask of a request with an unrecognized method
C21_AiMaskReportedStandard ==
    /\ BackgroundReturned
    /\ background_result.mask = "_ai_background_removal"
    /\ background_result.mask_quality = "standard"

====
